---- MODULE Spec2Model ----
(***************************************************************************)
(* PlantSpace real-time relay (Socket.IO handlers) together with the       *)
(* message store it writes to and the REST message handlers that read and  *)
(* mutate the same table.                                                  *)
(*                                                                         *)
(* Identities and payload strings are sequences of UTF-16 code units, so   *)
(* that Array.prototype.sort() and join(':') are computed as JavaScript    *)
(* computes them.  A Socket.IO room is a pair <<namespace, key>> standing  *)
(* for the string `${namespace}:${key}`.  The adapter's Set of rooms of a  *)
(* socket is kept as a bag whose multiplicities the join operation keeps   *)
(* at one.                                                                 *)
(***************************************************************************)
EXTENDS Integers, Sequences, FiniteSets, Bags, TLC

\* ------------------------------------------------------------- bounds
MaxConns == 2     \* connections ever opened
MaxEvents == 3    \* join, send and typing events handled
MaxSends == 1     \* send_message events among them
MaxTyping == 2    \* typing events among them
StoreConns == 1   \* connections opened in runs of the message store
StoreEvents == 2  \* join and send events handled in those runs
StoreSends == 1   \* send_message events among them
MaxRows == 2      \* message rows ever inserted
OrderEvents == 4  \* join and send events handled in runs of two sends
OrderSends == 2   \* send_message events among them
RelayEvents == 2  \* join, send, typing and signaling events in runs of every handler
CallsEvents == 2  \* join and signaling events handled in runs of call signaling
GroupEvents == 3  \* join and send events handled in runs of three identities
GroupSends == 1   \* send_message events among them
MaxHits == 4      \* requests a rate limiter handles
MaxBurst == 2     \* largest maxRequests of a rate limiter
MaxLikes == 3     \* like requests handled
MaxVerify == 3    \* verification submit and review requests handled
MaxReports == 2   \* report requests handled
MaxSignups == 2   \* registration requests handled
MaxStamps == 4    \* read_at stamps that mark-read requests take

\* ------------------------------------------------------------ strings
Colon == 58       \* ':' in join(':')
DefaultPage == 1  \* page = '1'
DefaultLimit == 50 \* limit = '50'
MaxUsername == 50    \* username.length > 50
MaxEmail == 255      \* email.length > 255
MaxDisplayName == 100 \* display_name.length > 100

u1 == <<117, 49>>          \* "u1"
u2 == <<117, 50>>          \* "u2"
u9 == <<117, 57>>          \* "u9": an id with no row in users
u3 == <<117, 51>>          \* "u3"
Undefined == <<>>          \* socket.userId before the handshake sets it

Strings == {u1, u2, u9}    \* values an event payload may carry

Conns == 1..MaxConns

\* handshake.auth.token: absent, or a JWT that verifies or not, with a subject
NoToken == [present |-> FALSE, verifies |-> FALSE, userId |-> Undefined]
Jwt(ok, id) == [present |-> TRUE, verifies |-> ok, userId |-> id]
Tokens == {NoToken, Jwt(FALSE, u1), Jwt(TRUE, u1), Jwt(TRUE, u2), Jwt(TRUE, u9)}

Null == [id |-> 0, sender_id |-> Undefined, receiver_id |-> Undefined, read_at |-> 0]

VARIABLES
  sockets,    \* per connection: status, handshake token, socket.userId
  rooms,      \* per connection: bag of rooms it is enrolled in
  joinReqs,   \* per connection: bag of otherUserId values of handled joins
  messages,   \* rows of the messages table
  nextId,     \* next id the store assigns to a message row
  pending,    \* send_message handlers: awaiting the insert, answered, done
  nextReq,    \* number of send_message events handled so far, plus one
  emitted,    \* every emit call made by a handler, in order
  inbox,      \* per connection: events delivered to its client, in order
  reads,      \* getMessages handlers between their select and their update
  clock       \* the time the next read_at stamp takes

VARIABLES
  quota,         \* events, sends and typing events this run may handle
  accounts,      \* rows of the users table
  posts,         \* rows of the posts table
  comments,      \* rows of the comments table
  verifications, \* rows of the verification_requests table
  response       \* the last response an HTTP handler or middleware wrote

VARIABLES
  limiter,       \* windowMs and maxRequests of the limiter createRateLimit returned
  requests,      \* its Map from key to the timestamps of the requests it passed on
  now,           \* Date.now()
  served,        \* every request the limiter handled, in order: key, time, outcome
  likes,         \* rows of the likes table
  reports,       \* rows of the post_reports table
  handlers       \* every HTTP handler started, in order: its request, the await it
                 \* is at, and its response once it has written one

\* what the relay handlers and the message handlers neither read nor write
tables == <<accounts, posts, comments, verifications>>
\* the state of the rate limiter
limits == <<limiter, requests, now, served>>
\* what the handlers modelled above the rate limiter neither read nor write
\* what the rate limiter neither reads nor writes
routes == <<likes, reports, handlers>>
backend == <<limits, routes>>

vars == <<sockets, rooms, joinReqs, messages, nextId, pending, nextReq, emitted, inbox,
          reads, clock, quota, tables, response, backend>>

\* a row of the users table
UserRow(id, admin) == [id |-> id, is_admin |-> admin, is_verified |-> FALSE]
\* ids of the rows of the users table
users == {a.id : a \in accounts}

\* no response written yet
NoResponse == [status |-> 0]

\* ------------------------------------------------------ pure functions
RECURSIVE StrLess(_, _)
\* default sort order of JavaScript strings: by code unit, a prefix first
StrLess(a, b) ==
  IF b = <<>> THEN FALSE
  ELSE IF a = <<>> THEN TRUE
  ELSE IF Head(a) # Head(b) THEN Head(a) < Head(b)
  ELSE StrLess(Tail(a), Tail(b))

\* [x, y].sort()
SortPairNoSwap(x, y) == <<x, y>>
SortPair(x, y) == IF StrLess(y, x) THEN <<y, x>> ELSE <<x, y>>

\* pair.join(':')
JoinColon(pair) == pair[1] \o <<Colon>> \o pair[2]

ConversationIdOfPayload(userId, otherUserId) == otherUserId
ConversationIdUnsorted(userId, otherUserId) == JoinColon(<<userId, otherUserId>>)
\* [socket.userId, other].sort().join(':')
ConversationId(userId, otherUserId) == JoinColon(SortPair(userId, otherUserId))

UserRoom(id) == <<"user", id>>
ConversationRoom(key) == <<"conversation", key>>

Repeat(e, n) == [i \in 1..n |-> e]

\* socket.join(room): the adapter keeps a Set, so a second join adds nothing
SocketJoinDup(bag, room) == bag (+) SetToBag({room})
SocketJoin(bag, room) == IF BagIn(room, bag) THEN bag ELSE bag (+) SetToBag({room})

SocketRoom(c) == <<"socket", <<c>>>>

\* one emit call made by the handler of socket c: io.to(room).emit(ev),
\* socket.to(room).emit(ev), which skips c itself, and socket.emit(ev)
ToRoom(c, room, ev) == [socket |-> c, room |-> room, ev |-> ev, except |-> FALSE]
ToRoomExcept(c, room, ev) == [socket |-> c, room |-> room, ev |-> ev, except |-> TRUE]
ToSelf(c, ev) == [socket |-> c, room |-> SocketRoom(c), ev |-> ev, except |-> FALSE]

CopiesAnyRoom(e, c) ==
  IF e.except /\ e.socket = c THEN 0
  ELSE IF sockets[c].status = "connected" THEN 1 ELSE 0
\* copies of the event of emit call e that reach connection c
Copies(e, c) ==
  IF e.except /\ e.socket = c THEN 0
  ELSE IF e.room = SocketRoom(c) THEN (IF sockets[c].status = "connected" THEN 1 ELSE 0)
  ELSE CopiesIn(e.room, rooms[c])

RECURSIVE DeliverNewestFirst(_, _)
DeliverNewestFirst(inb, es) ==
  IF es = <<>> THEN inb
  ELSE DeliverNewestFirst(
         [c \in Conns |-> Repeat(Head(es).ev, Copies(Head(es), c)) \o inb[c]], Tail(es))

RECURSIVE Deliver(_, _)
\* the inboxes after the emit calls es, made in order
Deliver(inb, es) ==
  IF es = <<>> THEN inb
  ELSE Deliver([c \in Conns |-> inb[c] \o Repeat(Head(es).ev, Copies(Head(es), c))],
               Tail(es))

\* io.use middleware: the userId bound to the socket, or Undefined on rejection
AuthenticateNoLookup(token) ==
  IF ~token.present THEN Undefined
  ELSE IF ~token.verifies THEN Undefined
  ELSE token.userId
Authenticate(token) ==
  IF ~token.present THEN Undefined
  ELSE IF ~token.verifies THEN Undefined
  ELSE IF token.userId \notin users THEN Undefined
  ELSE token.userId

\* ----------------------------------------------------------------- Init
\* a limiter that has handled no request
NoRequests == <<>>
FreshLimiter(windowMs, maxRequests) ==
  /\ limiter = [windowMs |-> windowMs, maxRequests |-> maxRequests]
  /\ requests = NoRequests
  /\ now = 0
  /\ served = <<>>
\* authRateLimit, before any request
\* no HTTP handler started, no like and no report
NoHandlers ==
  /\ likes = {}
  /\ reports = {}
  /\ handlers = <<>>
Idle == FreshLimiter(15 * 60 * 1000, 5) /\ NoHandlers

\* the state after construction, for a run with bounds q: no connection, empty
\* messages table, two users
Start(q) ==
  /\ sockets = [c \in Conns |-> [status |-> "new", token |-> NoToken, userId |-> Undefined]]
  /\ rooms = [c \in Conns |-> EmptyBag]
  /\ joinReqs = [c \in Conns |-> EmptyBag]
  /\ messages = {}
  /\ nextId = 1
  /\ pending = {}
  /\ nextReq = 1
  /\ emitted = <<>>
  /\ inbox = [c \in Conns |-> <<>>]
  /\ reads = {}
  /\ clock = 1
  /\ quota = q
  /\ response = NoResponse
  /\ accounts = {UserRow(u1, FALSE), UserRow(u2, FALSE)}
  /\ posts = {}
  /\ comments = {}
  /\ verifications = {}
  /\ Idle

Init ==
  Start([conns |-> MaxConns, events |-> MaxEvents, sends |-> MaxSends,
         typing |-> MaxTyping, rows |-> MaxRows])

Registered(c) == sockets[c].status = "connected"

\* a client opens connection c presenting token
Connect(c, token) ==
  /\ sockets[c].status = "new"
  /\ c <= quota.conns
  /\ \A d \in Conns : d < c => sockets[d].status # "new"
  /\ LET id == Authenticate(token) IN
     IF id = Undefined
     THEN /\ sockets' = [sockets EXCEPT ![c] =
                           [status |-> "rejected", token |-> token, userId |-> Undefined]]
          /\ UNCHANGED rooms
     ELSE /\ sockets' = [sockets EXCEPT ![c] =
                           [status |-> "connected", token |-> token, userId |-> id]]
          /\ rooms' = [rooms EXCEPT ![c] = SocketJoin(@, UserRoom(id))]
  /\ UNCHANGED <<joinReqs, messages, nextId, pending, nextReq, emitted, inbox, reads, clock,
               quota, backend, tables, response>>

\* payload shapes of the forwarded events, as one record type
Event(ev, id, msg, typing) ==
  [event |-> ev, userId |-> id, message |-> msg, isTyping |-> typing]
NewMessage(row) == Event("new_message", Undefined, row, FALSE)
MessageNotificationOfReceiver(id, row) ==
  Event("message_notification", row.receiver_id, row, FALSE)
MessageNotification(id, row) == Event("message_notification", id, row, FALSE)
MessageError == Event("message_error", Undefined, Null, FALSE)
UserTyping(id, typing) == Event("user_typing", id, Null, typing)

RECURSIVE SumCard(_, _)
SumCard(bags, c) == IF c = 0 THEN 0 ELSE BagCardinality(bags[c]) + SumCard(bags, c - 1)

\* events handled so far: typing events, and joins, sends and typing events
TypingUsed == Len(SelectSeq(emitted, LAMBDA e : e.ev.event = "user_typing"))
CallEvents == {"incoming_call", "call_answered", "call_rejected", "call_ended", "ice_candidate"}
CallsUsed == Len(SelectSeq(emitted, LAMBDA e : e.ev.event \in CallEvents))
EventsUsed == SumCard(joinReqs, MaxConns) + (nextReq - 1) + TypingUsed + CallsUsed

\* socket.on('join_conversation'); a socket that never reached the connection
\* callback has no handlers and its events are dropped
JoinConversation(c, otherUserId) ==
  /\ sockets[c].status \in {"connected", "rejected"}
  /\ IF Registered(c)
     THEN /\ EventsUsed < quota.events
          /\ rooms' = [rooms EXCEPT ![c] =
               SocketJoin(@, ConversationRoom(ConversationId(sockets[c].userId, otherUserId)))]
          /\ joinReqs' = [joinReqs EXCEPT ![c] = @ (+) SetToBag({otherUserId})]
     ELSE UNCHANGED <<rooms, joinReqs>>
  /\ UNCHANGED <<sockets, messages, nextId, pending, nextReq, emitted, inbox, reads, clock,
               quota, backend, tables, response>>

\* socket.on('send_message'), up to the await of the insert
SendMessage(c, receiverId) ==
  /\ sockets[c].status \in {"connected", "rejected"}
  /\ IF Registered(c)
     THEN /\ EventsUsed < quota.events
          /\ nextReq <= quota.sends
          /\ pending' = pending \cup
               {[rid |-> nextReq, socket |-> c, receiverId |-> receiverId,
                 st |-> "await", message |-> Null, done |-> FALSE]}
          /\ nextReq' = nextReq + 1
     ELSE UNCHANGED <<pending, nextReq>>
  /\ UNCHANGED <<sockets, rooms, joinReqs, messages, nextId, emitted, inbox, reads, clock,
               quota, backend, tables, response>>

InsertAllowedNoCheck(sender, receiver) ==
  /\ sender \in users
  /\ receiver \in users
\* the constraints of the messages table on a new row
InsertAllowed(sender, receiver) ==
  /\ sender \in users
  /\ receiver \in users
  /\ sender # receiver

\* the store answers the insert of pending handler p: a row, an error result,
\* or a failure of the call itself
StoreInsert(p) ==
  /\ p \in pending
  /\ p.st = "await"
  /\ LET sender == sockets[p.socket].userId
         row == [id |-> nextId, sender_id |-> sender,
                 receiver_id |-> p.receiverId, read_at |-> 0]
     IN \/ /\ InsertAllowed(sender, p.receiverId)
           /\ messages' = messages \cup {row}
           /\ nextId' = nextId + 1
           /\ pending' = (pending \ {p}) \cup {[p EXCEPT !.st = "ok", !.message = row]}
        \/ /\ \E failure \in {"error", "threw"} :
                pending' = (pending \ {p}) \cup {[p EXCEPT !.st = failure]}
           /\ UNCHANGED <<messages, nextId>>
  /\ UNCHANGED <<sockets, rooms, joinReqs, nextReq, emitted, inbox, reads, clock,
               quota, backend, tables, response>>

\* the emit calls of send_message once the insert has returned
SendEmitsNoReturn(p) ==
  (IF p.st = "ok" THEN <<>> ELSE <<ToSelf(p.socket, MessageError)>>)
  \o <<ToRoom(p.socket,
              ConversationRoom(ConversationId(sockets[p.socket].userId, p.receiverId)),
              NewMessage(p.message)),
       ToRoom(p.socket, UserRoom(p.receiverId),
              MessageNotification(sockets[p.socket].userId, p.message))>>
SendEmitsSilentFailure(p) ==
  IF p.st = "ok"
  THEN <<ToRoom(p.socket,
                ConversationRoom(ConversationId(sockets[p.socket].userId, p.receiverId)),
                NewMessage(p.message)),
         ToRoom(p.socket, UserRoom(p.receiverId),
                MessageNotification(sockets[p.socket].userId, p.message))>>
  ELSE <<>>
SendEmitsNoNotify(p) ==
  IF p.st = "ok"
  THEN <<ToRoom(p.socket,
                ConversationRoom(ConversationId(sockets[p.socket].userId, p.receiverId)),
                NewMessage(p.message))>>
  ELSE <<ToSelf(p.socket, MessageError)>>
SendEmitsExceptSender(p) ==
  IF p.st = "ok"
  THEN <<ToRoomExcept(p.socket,
                ConversationRoom(ConversationId(sockets[p.socket].userId, p.receiverId)),
                NewMessage(p.message)),
         ToRoom(p.socket, UserRoom(p.receiverId),
                MessageNotification(sockets[p.socket].userId, p.message))>>
  ELSE <<ToSelf(p.socket, MessageError)>>
SendEmits(p) ==
  IF p.st = "ok"
  THEN <<ToRoom(p.socket,
                ConversationRoom(ConversationId(sockets[p.socket].userId, p.receiverId)),
                NewMessage(p.message)),
         ToRoom(p.socket, UserRoom(p.receiverId),
                MessageNotification(sockets[p.socket].userId, p.message))>>
  ELSE <<ToSelf(p.socket, MessageError)>>

\* socket.on('send_message'), after the await
SendMessageResume(p) ==
  /\ p \in pending
  /\ p.st # "await"
  /\ ~p.done
  /\ emitted' = emitted \o SendEmits(p)
  /\ inbox' = Deliver(inbox, SendEmits(p))
  /\ pending' = (pending \ {p}) \cup {[p EXCEPT !.done = TRUE]}
  /\ UNCHANGED <<sockets, rooms, joinReqs, messages, nextId, nextReq, reads, clock,
               quota, backend, tables, response>>

\* the emit call of typing_start (typing = TRUE) and typing_stop (FALSE)
TypingEmitsToAll(c, receiverId, typing) ==
  <<ToRoom(c, UserRoom(receiverId), UserTyping(sockets[c].userId, typing))>>
TypingEmits(c, receiverId, typing) ==
  <<ToRoomExcept(c, UserRoom(receiverId), UserTyping(sockets[c].userId, typing))>>

\* socket.on('typing_start')
TypingStart(c, receiverId) ==
  /\ sockets[c].status \in {"connected", "rejected"}
  /\ IF Registered(c)
     THEN /\ EventsUsed < quota.events
          /\ TypingUsed < quota.typing
          /\ emitted' = emitted \o TypingEmits(c, receiverId, TRUE)
          /\ inbox' = Deliver(inbox, TypingEmits(c, receiverId, TRUE))
     ELSE UNCHANGED <<emitted, inbox>>
  /\ UNCHANGED <<sockets, rooms, joinReqs, messages, nextId, pending, nextReq, reads, clock,
               quota, backend, tables, response>>

\* socket.on('typing_stop')
TypingStop(c, receiverId) ==
  /\ sockets[c].status \in {"connected", "rejected"}
  /\ IF Registered(c)
     THEN /\ EventsUsed < quota.events
          /\ TypingUsed < quota.typing
          /\ emitted' = emitted \o TypingEmits(c, receiverId, FALSE)
          /\ inbox' = Deliver(inbox, TypingEmits(c, receiverId, FALSE))
     ELSE UNCHANGED <<emitted, inbox>>
  /\ UNCHANGED <<sockets, rooms, joinReqs, messages, nextId, pending, nextReq, reads, clock,
               quota, backend, tables, response>>

\* payloads of the forwarded signaling events
IncomingCall(id, offer, callType) ==
  [event |-> "incoming_call", callerId |-> id, offer |-> offer, callType |-> callType]
CallAnswered(answer) == [event |-> "call_answered", answer |-> answer]
CallRejected == [event |-> "call_rejected"]
CallEnded == [event |-> "call_ended"]
IceCandidate(candidate) == [event |-> "ice_candidate", candidate |-> candidate]

\* opaque values a client sends as offer, answer or candidate, and call types
Blobs == {"sdp"}
CallTypes == {"voice", "video"}

\* the emit call of a signaling handler of socket c naming target
SignalEmitsToConversation(c, target, ev) ==
  <<ToRoomExcept(c, ConversationRoom(ConversationId(sockets[c].userId, target)), ev)>>
SignalEmits(c, target, ev) == <<ToRoomExcept(c, UserRoom(target), ev)>>

\* a signaling handler of socket c: one emit, nothing else
Signal(c, target, ev) ==
  /\ sockets[c].status \in {"connected", "rejected"}
  /\ IF Registered(c)
     THEN /\ EventsUsed < quota.events
          /\ emitted' = emitted \o SignalEmits(c, target, ev)
          /\ inbox' = Deliver(inbox, SignalEmits(c, target, ev))
     ELSE UNCHANGED <<emitted, inbox>>
  /\ UNCHANGED <<sockets, rooms, joinReqs, messages, nextId, pending, nextReq, reads, clock,
               quota, backend, tables, response>>

\* socket.on('call_user')
CallUser(c, calleeId, offer, callType) ==
  Signal(c, calleeId, IncomingCall(sockets[c].userId, offer, callType))
\* socket.on('answer_call')
AnswerCall(c, callerId, answer) == Signal(c, callerId, CallAnswered(answer))
\* socket.on('reject_call')
RejectCall(c, callerId) == Signal(c, callerId, CallRejected)
\* socket.on('end_call')
EndCall(c, otherUserId) == Signal(c, otherUserId, CallEnded)
\* socket.on('ice_candidate')
IceCandidateFrom(c, otherUserId, candidate) == Signal(c, otherUserId, IceCandidate(candidate))

\* the rooms of a socket once its transport has closed
RoomsKept(bag) == bag
RoomsAfterDisconnect(bag) == EmptyBag

\* socket.on('disconnect'): the handler logs; the socket has left its rooms
Disconnect(c) ==
  /\ sockets[c].status = "connected"
  /\ sockets' = [sockets EXCEPT ![c].status = "disconnected"]
  /\ rooms' = [rooms EXCEPT ![c] = RoomsAfterDisconnect(@)]
  /\ UNCHANGED <<joinReqs, messages, nextId, pending, nextReq, emitted, inbox, reads, clock,
               quota, backend, tables, response>>

\* ------------------------------------------------------------- REST
RECURSIVE OrderDesc(_)
\* .order('created_at', { ascending: false }); ids follow creation order
OrderDesc(rows) ==
  IF rows = {} THEN <<>>
  ELSE LET newest == CHOOSE x \in rows : \A y \in rows : y.id <= x.id
       IN <<newest>> \o OrderDesc(rows \ {newest})

Min(a, b) == IF a < b THEN a ELSE b

\* the .or(and(...),and(...)) filter of getMessages
BetweenOneWay(row, userId, otherUserId) ==
  row.sender_id = userId /\ row.receiver_id = otherUserId
Between(row, userId, otherUserId) ==
  \/ row.sender_id = userId /\ row.receiver_id = otherUserId
  \/ row.sender_id = otherUserId /\ row.receiver_id = userId

\* the rows the select of getMessages returns, newest first
SelectMessages(userId, otherUserId, page, limit) ==
  LET all == OrderDesc({m \in messages : Between(m, userId, otherUserId)})
      offset == (page - 1) * limit
  IN SubSeq(all, offset + 1, Min(offset + limit, Len(all)))

\* the page and limit query parameters tried: the defaults, and the second page
\* of pages of one row
Queries == {<<DefaultPage, DefaultLimit>>, <<DefaultPage + 1, 1>>}

Reverse(seq) == [i \in 1..Len(seq) |-> seq[Len(seq) + 1 - i]]

\* the messages array of the response of getMessages
GetMessagesResponse(userId, otherUserId, page, limit) ==
  Reverse(SelectMessages(userId, otherUserId, page, limit))

Range(seq) == {seq[i] : i \in 1..Len(seq)}

\* GET /messages/:otherUserId up to the await of the update
GetMessages(userId, otherUserId, page, limit) ==
  /\ LET got == Range(SelectMessages(userId, otherUserId, page, limit))
         unreadMessageIds == {m.id : m \in {x \in got : x.receiver_id = userId /\ x.read_at = 0}}
     IN reads' = IF unreadMessageIds = {} THEN reads
                 ELSE reads \cup {[userId |-> userId, ids |-> unreadMessageIds]}
  /\ UNCHANGED <<sockets, rooms, joinReqs, messages, nextId, pending, nextReq, emitted, inbox, clock,
               quota, backend, tables, response>>

\* the update of getMessages reaches the store
GetMessagesUpdate(r) ==
  /\ r \in reads
  /\ messages' = {IF m.id \in r.ids THEN [m EXCEPT !.read_at = clock] ELSE m : m \in messages}
  /\ clock' = clock + 1
  /\ reads' = reads \ {r}
  /\ UNCHANGED <<sockets, rooms, joinReqs, nextId, pending, nextReq, emitted, inbox,
               quota, backend, tables, response>>

\* res.status(code).json(...)
Status(code) == [status |-> code]

\* .eq('id', messageId).eq('sender_id', userId) on the messages table
SelectAnyMessage(userId, messageId) == {m \in messages : m.id = messageId}
SelectOwnMessage(userId, messageId) ==
  {m \in messages : m.id = messageId /\ m.sender_id = userId}

\* DELETE /messages/:messageId, for req.user.id = userId: the select by id and
\* sender_id, then the delete by id, which the store performs or fails
DeleteMessage(userId, messageId) ==
  /\ IF userId = Undefined
     THEN /\ response' = Status(401)
          /\ UNCHANGED messages
     ELSE IF SelectOwnMessage(userId, messageId) = {}
     THEN /\ response' = Status(404)
          /\ UNCHANGED messages
     ELSE \/ /\ messages' = {m \in messages : m.id # messageId}
             /\ response' = Status(200)
          \/ /\ response' = Status(500)
             /\ UNCHANGED messages
  /\ UNCHANGED <<sockets, rooms, joinReqs, nextId, pending, nextReq, emitted, inbox, reads, clock,
               quota, backend, tables>>

Next ==
  \/ \E c \in Conns, t \in Tokens : Connect(c, t)
  \/ \E c \in Conns, s \in Strings : JoinConversation(c, s)
  \/ \E c \in Conns, s \in Strings : SendMessage(c, s)
  \/ \E p \in pending : StoreInsert(p)
  \/ \E p \in pending : SendMessageResume(p)
  \/ \E c \in Conns, s \in Strings : TypingStart(c, s)
  \/ \E c \in Conns, s \in Strings : TypingStop(c, s)
  \/ \E c \in Conns : Disconnect(c)
  \/ \E u \in users, o \in users, q \in Queries : GetMessages(u, o, q[1], q[2])
  \/ \E r \in reads : GetMessagesUpdate(r)

Spec == Init /\ [][Next]_vars

\* every store call returns, and the event loop runs the continuation of a
\* handler whose awaited call has returned
Fairness ==
  \A rid \in 1..MaxSends :
    /\ WF_vars(\E p \in pending : p.rid = rid /\ StoreInsert(p))
    /\ WF_vars(\E p \in pending : p.rid = rid /\ SendMessageResume(p))

FairSpec == Init /\ [][Next]_vars /\ Fairness

\* ------------------------------------- two sends to one conversation
InitOrder ==
  Start([conns |-> MaxConns, events |-> OrderEvents, sends |-> OrderSends,
         typing |-> 0, rows |-> MaxRows])

NextOrder ==
  \/ \E c \in Conns, t \in Tokens : Connect(c, t)
  \/ \E c \in Conns, s \in Strings : JoinConversation(c, s)
  \/ \E c \in Conns, s \in Strings : SendMessage(c, s)
  \/ \E p \in pending : StoreInsert(p)
  \/ \E p \in pending : SendMessageResume(p)

SpecOrder == InitOrder /\ [][NextOrder]_vars

\* ----------------------------------------------------- call signaling
InitCalls ==
  Start([conns |-> MaxConns, events |-> CallsEvents, sends |-> 0, typing |-> 0,
         rows |-> MaxRows])

NextCalls ==
  \/ \E c \in Conns, t \in Tokens : Connect(c, t)
  \/ \E c \in Conns, s \in Strings : JoinConversation(c, s)
  \/ \E c \in Conns, s \in Strings, o \in Blobs, t \in CallTypes : CallUser(c, s, o, t)
  \/ \E c \in Conns, s \in Strings, a \in Blobs : AnswerCall(c, s, a)
  \/ \E c \in Conns, s \in Strings : RejectCall(c, s)
  \/ \E c \in Conns, s \in Strings : EndCall(c, s)
  \/ \E c \in Conns, s \in Strings, x \in Blobs : IceCandidateFrom(c, s, x)
  \/ \E c \in Conns : Disconnect(c)

SpecCalls == InitCalls /\ [][NextCalls]_vars

\* ------------------------------------------- every handler of the relay
InitRelay ==
  Start([conns |-> MaxConns, events |-> RelayEvents, sends |-> MaxSends,
         typing |-> MaxTyping, rows |-> MaxRows])

NextRelay ==
  \/ \E c \in Conns, t \in Tokens : Connect(c, t)
  \/ \E c \in Conns, s \in Strings : JoinConversation(c, s)
  \/ \E c \in Conns, s \in Strings : SendMessage(c, s)
  \/ \E p \in pending : StoreInsert(p)
  \/ \E p \in pending : SendMessageResume(p)
  \/ \E c \in Conns, s \in Strings : TypingStart(c, s)
  \/ \E c \in Conns, s \in Strings : TypingStop(c, s)
  \/ \E c \in Conns, s \in Strings, o \in Blobs, t \in CallTypes : CallUser(c, s, o, t)
  \/ \E c \in Conns, s \in Strings, a \in Blobs : AnswerCall(c, s, a)
  \/ \E c \in Conns, s \in Strings : RejectCall(c, s)
  \/ \E c \in Conns, s \in Strings : EndCall(c, s)
  \/ \E c \in Conns, s \in Strings, x \in Blobs : IceCandidateFrom(c, s, x)
  \/ \E c \in Conns : Disconnect(c)

SpecRelay == InitRelay /\ [][NextRelay]_vars

\* ------------------------------------------- the message store alone
\* POST /messages, for req.user.id = userId; content: text or imageUrl given
PostMessage(userId, receiverId, content) ==
  /\ nextId <= quota.rows
  /\ LET row == [id |-> nextId, sender_id |-> userId,
                 receiver_id |-> receiverId, read_at |-> 0]
     IN IF userId = Undefined
        THEN /\ response' = Status(401)
             /\ UNCHANGED <<messages, nextId>>
        ELSE IF receiverId = Undefined \/ ~content
        THEN /\ response' = Status(400)
             /\ UNCHANGED <<messages, nextId>>
        ELSE IF receiverId \notin users
        THEN /\ response' = Status(404)
             /\ UNCHANGED <<messages, nextId>>
        ELSE \/ /\ InsertAllowed(userId, receiverId)
                /\ messages' = messages \cup {row}
                /\ nextId' = nextId + 1
                /\ response' = Status(201)
             \/ /\ response' = Status(500)
                /\ UNCHANGED <<messages, nextId>>
  /\ UNCHANGED <<sockets, rooms, joinReqs, pending, nextReq, emitted, inbox, reads, clock,
               quota, backend, tables>>

InitStore ==
  Start([conns |-> StoreConns, events |-> StoreEvents, sends |-> StoreSends,
         typing |-> 0, rows |-> MaxRows])

NextStore ==
  \/ \E c \in Conns, t \in Tokens : Connect(c, t)
  \/ \E c \in Conns, s \in Strings : JoinConversation(c, s)
  \/ \E c \in Conns, s \in Strings : SendMessage(c, s)
  \/ \E p \in pending : StoreInsert(p)
  \/ \E p \in pending : SendMessageResume(p)
  \/ \E u \in users \cup {Undefined}, r \in Strings \cup {Undefined}, content \in BOOLEAN :
       PostMessage(u, r, content)
  \/ \E u \in users, o \in users, q \in Queries : GetMessages(u, o, q[1], q[2])
  \/ \E r \in reads : GetMessagesUpdate(r)
  \/ \E u \in users \cup {Undefined}, id \in 1..MaxRows : DeleteMessage(u, id)

SpecStore == InitStore /\ [][NextStore]_vars

\* ------------------------------------------------- HTTP middleware
\* a bearer credential: a JWT that verifies, is malformed, or has expired
Bearer(kind, id) == [kind |-> kind, userId |-> id]
\* req.headers['authorization'] split at ' ': absent, or the words of the header
NoHeader == <<"absent">>
Headers ==
  {NoHeader, <<"Bearer">>, <<"Bearer", Undefined>>,
   <<"Bearer", Bearer("malformed", u1)>>, <<"Bearer", Bearer("expired", u1)>>,
   <<"Bearer", Bearer("valid", u1)>>, <<"Bearer", Bearer("valid", u2)>>}
\* how the store answers a query: with rows, with an error result, by throwing
Answers3 == {"ok", "error", "threw"}

\* authHeader && authHeader.split(' ')[1]
TokenOf(header) ==
  IF header = NoHeader THEN Undefined
  ELSE IF Len(header) < 2 THEN Undefined
  ELSE header[2]

\* a response written by a middleware, and the outcome of calling next()
Rejected(status, code) ==
  [next |-> FALSE, user |-> Undefined, status |-> status, code |-> code]
Passed(user) == [next |-> TRUE, user |-> user, status |-> 0, code |-> ""]

\* the columns authenticateToken selects of a users row
SelectedColumnsWithAdmin(row) == [id |-> row.id, is_admin |-> row.is_admin]
SelectedColumns(row) == [id |-> row.id]

\* authenticateToken: TokenExpiredError is a JsonWebTokenError, so both are
\* answered by the first branch of the catch
AuthenticateTokenNoLookup(header, store) ==
  LET token == TokenOf(header) IN
  IF token = Undefined THEN Rejected(401, "TOKEN_MISSING")
  ELSE IF token.kind # "valid" THEN Rejected(403, "TOKEN_INVALID")
  ELSE Passed([id |-> token.userId])
AuthenticateToken(header, store) ==
  LET token == TokenOf(header)
      found == {a \in accounts : a.id = token.userId}
  IN IF token = Undefined THEN Rejected(401, "TOKEN_MISSING")
     ELSE IF token.kind # "valid" THEN Rejected(403, "TOKEN_INVALID")
     ELSE IF store = "threw" THEN Rejected(500, "AUTH_ERROR")
     ELSE IF store = "error" \/ found = {} THEN Rejected(403, "TOKEN_INVALID")
     ELSE Passed(SelectedColumns(CHOOSE a \in found : TRUE))

\* the response of a route: of the middleware that refused the request, or of
\* the handler, which ran with req.user = user
Refusal(route, header, auth) ==
  [route |-> route, authorization |-> header, status |-> auth.status, code |-> auth.code,
   handler |-> FALSE, user |-> Undefined]
Handled(route, header, status, user) ==
  [route |-> route, authorization |-> header, status |-> status, code |-> "",
   handler |-> TRUE, user |-> user]

\* a row of the users table is deleted; rows that reference it go with it
RemoveUser(id) ==
  /\ id \in users
  /\ accounts' = {a \in accounts : a.id # id}
  /\ messages' = {m \in messages : m.sender_id # id /\ m.receiver_id # id}
  /\ posts' = {x \in posts : x.user_id # id}
  /\ comments' = {x \in comments : x.user_id # id
                                    /\ \E y \in posts : y.id = x.post_id /\ y.user_id # id}
  /\ verifications' = {x \in verifications : x.user_id # id}
  /\ UNCHANGED <<sockets, rooms, joinReqs, nextId, pending, nextReq, emitted, inbox, reads,
                 clock, quota, backend, response>>

\* .eq('id', commentId).eq('user_id', userId) on the comments table
SelectAnyComment(userId, commentId) == {x \in comments : x.id = commentId}
SelectOwnComment(userId, commentId) ==
  {x \in comments : x.id = commentId /\ x.user_id = userId}

\* DELETE /comments/:commentId
DeleteComment(header, store, commentId) ==
  /\ LET auth == AuthenticateToken(header, store) IN
     IF ~auth.next
     THEN /\ response' = Refusal(<<"DELETE /comments/:commentId", commentId>>, header, auth)
          /\ UNCHANGED comments
     ELSE IF SelectOwnComment(auth.user.id, commentId) = {}
     THEN /\ response' = Handled(<<"DELETE /comments/:commentId", commentId>>, header, 404, auth.user)
          /\ UNCHANGED comments
     ELSE \/ /\ comments' = {x \in comments : x.id # commentId}
             /\ response' = Handled(<<"DELETE /comments/:commentId", commentId>>, header, 200, auth.user)
          \/ /\ response' = Handled(<<"DELETE /comments/:commentId", commentId>>, header, 500, auth.user)
             /\ UNCHANGED comments
  /\ UNCHANGED <<sockets, rooms, joinReqs, messages, nextId, pending, nextReq, emitted, inbox,
                 reads, clock, quota, backend, accounts, posts, verifications>>

\* requireAdmin: !req.user?.is_admin, on the columns authenticateToken selected
RequireAdmin(user) ==
  IF "is_admin" \in DOMAIN user /\ user.is_admin
  THEN Passed(user)
  ELSE Rejected(403, "ADMIN_REQUIRED")

\* app.use(path, authenticateToken, router), then the route's own
\* authenticateToken and requireAdmin: the first refusal, or the identity
AdminChain(header, st1, st2) ==
  LET first == AuthenticateToken(header, st1)
      second == AuthenticateToken(header, st2)
  IN IF ~first.next THEN first
     ELSE IF ~second.next THEN second
     ELSE RequireAdmin(second.user)

Actions == {"approve", "reject", "remove"}
\* how the store answers the updates of an admin handler
Updates == {"ok", "first fails", "second fails"}
NewStatus(action) == IF action = "approve" THEN "approved" ELSE "rejected"

\* POST /moderation/admin/moderate-post; post_id 0 stands for a missing field
ModeratePost(header, st1, st2, post_id, action, upd) ==
  /\ LET chain == AdminChain(header, st1, st2) IN
     IF ~chain.next
     THEN /\ response' = Refusal(<<"POST /moderation/admin/moderate-post", post_id>>, header, chain)
          /\ UNCHANGED posts
     ELSE IF post_id = 0 \/ action \notin {"approve", "reject"}
     THEN /\ response' = Handled(<<"POST /moderation/admin/moderate-post", post_id>>, header, 400, chain.user)
          /\ UNCHANGED posts
     ELSE IF {x \in posts : x.id = post_id} = {}
     THEN /\ response' = Handled(<<"POST /moderation/admin/moderate-post", post_id>>, header, 404, chain.user)
          /\ UNCHANGED posts
     ELSE IF upd = "first fails"
     THEN /\ response' = Handled(<<"POST /moderation/admin/moderate-post", post_id>>, header, 500, chain.user)
          /\ UNCHANGED posts
     ELSE /\ posts' = {IF x.id = post_id
                        THEN [x EXCEPT !.moderation_status = NewStatus(action)]
                        ELSE x : x \in posts}
          /\ response' = Handled(<<"POST /moderation/admin/moderate-post", post_id>>, header, 200, chain.user)
  /\ UNCHANGED <<sockets, rooms, joinReqs, messages, nextId, pending, nextReq, emitted, inbox,
                 reads, clock, quota, backend, accounts, comments, verifications>>

\* POST /verification/admin/review
ReviewVerification(header, st1, st2, verification_id, action, upd) ==
  /\ LET chain == AdminChain(header, st1, st2)
         found == {x \in verifications : x.id = verification_id}
         request == CHOOSE x \in found : TRUE
         reviewed == {IF x.id = verification_id
                      THEN [x EXCEPT !.status = NewStatus(action)]
                      ELSE x : x \in verifications}
     IN
     IF ~chain.next
     THEN /\ response' = Refusal(<<"POST /verification/admin/review", verification_id>>, header, chain)
          /\ UNCHANGED <<verifications, accounts>>
     ELSE IF verification_id = 0 \/ action \notin {"approve", "reject"}
     THEN /\ response' = Handled(<<"POST /verification/admin/review", verification_id>>, header, 400, chain.user)
          /\ UNCHANGED <<verifications, accounts>>
     ELSE IF found = {}
     THEN /\ response' = Handled(<<"POST /verification/admin/review", verification_id>>, header, 404, chain.user)
          /\ UNCHANGED <<verifications, accounts>>
     ELSE IF request.status # "pending"
     THEN /\ response' = Handled(<<"POST /verification/admin/review", verification_id>>, header, 400, chain.user)
          /\ UNCHANGED <<verifications, accounts>>
     ELSE IF upd = "first fails"
     THEN /\ response' = Handled(<<"POST /verification/admin/review", verification_id>>, header, 500, chain.user)
          /\ UNCHANGED <<verifications, accounts>>
     ELSE IF upd = "second fails"
     THEN /\ verifications' = reviewed
          /\ response' = Handled(<<"POST /verification/admin/review", verification_id>>, header, 500, chain.user)
          /\ UNCHANGED accounts
     ELSE /\ verifications' = reviewed
          /\ accounts' = {IF a.id = request.user_id
                           THEN [a EXCEPT !.is_verified = (action = "approve")]
                           ELSE a : a \in accounts}
          /\ response' = Handled(<<"POST /verification/admin/review", verification_id>>, header, 200, chain.user)
  /\ UNCHANGED <<sockets, rooms, joinReqs, messages, nextId, pending, nextReq, emitted, inbox,
                 reads, clock, quota, backend, posts, comments>>

\* DELETE /posts/:postId; the comments on a deleted post go with it
DeletePost(header, store, upd, postId) ==
  /\ LET auth == AuthenticateToken(header, store)
         found == {x \in posts : x.id = postId}
     IN
     IF ~auth.next
     THEN /\ response' = Refusal(<<"DELETE /posts/:postId", postId>>, header, auth)
          /\ UNCHANGED <<posts, comments>>
     ELSE IF found = {}
     THEN /\ response' = Handled(<<"DELETE /posts/:postId", postId>>, header, 404, auth.user)
          /\ UNCHANGED <<posts, comments>>
     ELSE IF (CHOOSE x \in found : TRUE).user_id # auth.user.id
     THEN /\ response' = Handled(<<"DELETE /posts/:postId", postId>>, header, 403, auth.user)
          /\ UNCHANGED <<posts, comments>>
     ELSE IF upd = "first fails"
     THEN /\ response' = Handled(<<"DELETE /posts/:postId", postId>>, header, 500, auth.user)
          /\ UNCHANGED <<posts, comments>>
     ELSE /\ posts' = {x \in posts : x.id # postId}
          /\ comments' = {x \in comments : x.post_id # postId}
          /\ response' = Handled(<<"DELETE /posts/:postId", postId>>, header, 200, auth.user)
  /\ UNCHANGED <<sockets, rooms, joinReqs, messages, nextId, pending, nextReq, emitted, inbox,
                 reads, clock, quota, backend, accounts, verifications>>

\* rows of the posts, comments and verification_requests tables
PostRow(id, author, status) == [id |-> id, user_id |-> author, moderation_status |-> status]
CommentRow(id, author, post) == [id |-> id, user_id |-> author, post_id |-> post]
VerificationRow(id, author, status) == [id |-> id, user_id |-> author, status |-> status]

\* no connection, an admin u1 and a user u2, a post and a comment of u1
InitHttp ==
  /\ sockets = [c \in Conns |-> [status |-> "new", token |-> NoToken, userId |-> Undefined]]
  /\ rooms = [c \in Conns |-> EmptyBag]
  /\ joinReqs = [c \in Conns |-> EmptyBag]
  /\ messages = {}
  /\ nextId = 1
  /\ pending = {}
  /\ nextReq = 1
  /\ emitted = <<>>
  /\ inbox = [c \in Conns |-> <<>>]
  /\ reads = {}
  /\ clock = 1
  /\ quota = [conns |-> 0, events |-> 0, sends |-> 0, typing |-> 0, rows |-> 0]
  /\ response = NoResponse
  /\ accounts = {UserRow(u1, TRUE), UserRow(u2, FALSE)}
  /\ posts = {PostRow(1, u1, "pending")}
  /\ comments = {CommentRow(1, u1, 1)}
  /\ verifications = {VerificationRow(1, u2, "pending")}
  /\ Idle

RowIds == {1, 2}

NextHttp ==
  \/ \E u \in users : RemoveUser(u)
  \/ \E h \in Headers, st \in Answers3, id \in RowIds : DeleteComment(h, st, id)
  \/ \E h \in Headers, st \in Answers3, upd \in Updates \ {"second fails"}, id \in RowIds :
       DeletePost(h, st, upd, id)
  \/ \E h \in Headers, st1 \in Answers3, st2 \in Answers3, id \in RowIds \cup {0},
        a \in Actions, upd \in Updates : ModeratePost(h, st1, st2, id, a, upd)
  \/ \E h \in Headers, st1 \in Answers3, st2 \in Answers3, id \in RowIds \cup {0},
        a \in Actions, upd \in Updates : ReviewVerification(h, st1, st2, id, a, upd)

SpecHttp == InitHttp /\ [][NextHttp]_vars

\* ------------------------------------------------- validateRegistration
\* code units
Lower == 97..122
Upper == 65..90
Digit == 48..57
Special == {64, 36, 33, 37, 42, 63, 38}      \* [@$!%*?&]
WordChar == Lower \cup Upper \cup Digit \cup {95}
\* \s
Space ==
  (9..13) \cup {32, 160, 5760, 8232, 8233, 8239, 8287, 12288, 65279} \cup (8192..8202)
At == 64
Dot == 46

Some(str, class) == \E i \in 1..Len(str) : str[i] \in class
All(str, class) == \A i \in 1..Len(str) : str[i] \in class
\* the errors pushed when a test fails
ErrorIf(failed, message) == IF failed THEN <<message>> ELSE <<>>

\* validatePassword(password).errors
ValidatePassword(password) ==
  ErrorIf(Len(password) < 8, "Password must be at least 8 characters long")
  \o ErrorIf(~Some(password, Lower), "Password must contain at least one lowercase letter")
  \o ErrorIf(~Some(password, Upper), "Password must contain at least one uppercase letter")
  \o ErrorIf(~Some(password, Digit), "Password must contain at least one number")
  \o ErrorIf(~Some(password, Special),
             "Password must contain at least one special character (@$!%*?&)")

\* validateUsername(username).errors
ValidateUsername(username) ==
  ErrorIf(Len(username) < 3 \/ Len(username) > MaxUsername,
          "Username must be between 3 and 50 characters")
  \o ErrorIf(~(username # <<>> /\ All(username, WordChar)),
             "Username can only contain letters, numbers, and underscores")
  \o ErrorIf(username # <<>> /\ username[1] \in Digit, "Username cannot start with a number")

\* /^[^\s@]+@[^\s@]+\.[^\s@]+$/: one '@', nothing before it empty, no
\* white space, and after it a '.' with something on both sides
EmailRegex(email) ==
  LET ats == {i \in 1..Len(email) : email[i] = At} IN
  /\ Cardinality(ats) = 1
  /\ ~Some(email, Space)
  /\ \A i \in ats :
       /\ 1 < i
       /\ \E j \in (i + 2)..(Len(email) - 1) : email[j] = Dot

\* validateEmail(email).errors
ValidateEmail(email) ==
  ErrorIf(~EmailRegex(email), "Please enter a valid email address")
  \o ErrorIf(Len(email) > MaxEmail, "Email address is too long")

\* the errors of the first block: a field that is undefined or '' is required
RequiredErrors(body) ==
  ErrorIf(body.username = Undefined, "Username is required")
  \o ErrorIf(body.email = Undefined, "Email is required")
  \o ErrorIf(body.password = Undefined, "Password is required")
  \o ErrorIf(body.display_name = Undefined, "Display name is required")

\* the errors of the second block
FormatErrors(body) ==
  ValidateUsername(body.username)
  \o ValidateEmail(body.email)
  \o ValidatePassword(body.password)
  \o ErrorIf(Len(body.display_name) < 1 \/ Len(body.display_name) > MaxDisplayName,
             "Display name must be between 1 and 100 characters")

\* validateRegistration: the response, or next()
ValidateRegistrationAllAtOnce(body) ==
  LET errors == RequiredErrors(body)
                \o (IF body.username = Undefined THEN <<>> ELSE ValidateUsername(body.username))
                \o (IF body.email = Undefined THEN <<>> ELSE ValidateEmail(body.email))
                \o (IF body.password = Undefined THEN <<>> ELSE ValidatePassword(body.password))
                \o ErrorIf(Len(body.display_name) > MaxDisplayName,
                           "Display name must be between 1 and 100 characters")
  IN IF errors # <<>>
     THEN [body |-> body, status |-> 400, errors |-> errors, next |-> FALSE]
     ELSE [body |-> body, status |-> 0, errors |-> <<>>, next |-> TRUE]
ValidateRegistration(body) ==
  IF RequiredErrors(body) # <<>>
  THEN [body |-> body, status |-> 400, errors |-> RequiredErrors(body), next |-> FALSE]
  ELSE IF FormatErrors(body) # <<>>
  THEN [body |-> body, status |-> 400, errors |-> FormatErrors(body), next |-> FALSE]
  ELSE [body |-> body, status |-> 0, errors |-> <<>>, next |-> TRUE]

\* field values of the request bodies tried; Undefined is both a missing
\* field and '', which the handler does not tell apart
Usernames ==
  {Undefined, <<97, 98>>, <<97, 98, 99>>, <<49, 97, 98>>, <<97, 45, 98>>, <<57>>,
   Repeat(97, MaxUsername + 1)}
Emails ==
  {Undefined, <<97, 64, 98, 46, 99>>, <<97, 64, 98>>, <<97, 32, 98, 64, 99, 46, 100>>,
   <<64, 98, 46, 99>>, Repeat(97, MaxEmail) \o <<64, 98, 46, 99>>}
Passwords ==
  {Undefined, <<65, 98, 99, 100, 101, 102, 49, 33>>, <<97, 98, 99>>,
   <<65, 66, 67, 68, 69, 70, 71, 49>>, <<97, 98, 99, 100, 101, 102, 103, 104, 33>>}
DisplayNames == {Undefined, <<120>>, Repeat(120, MaxDisplayName + 1)}
Bodies ==
  [username : Usernames, email : Emails, password : Passwords, display_name : DisplayNames]

\* POST /auth/register, up to the end of validateRegistration; a run
\* validates one request
Register(body) ==
  /\ response = NoResponse
  /\ response' = ValidateRegistration(body)
  /\ UNCHANGED <<sockets, rooms, joinReqs, messages, nextId, pending, nextReq, emitted, inbox,
                 reads, clock, quota, backend, tables>>

InitRegister ==
  Start([conns |-> 0, events |-> 0, sends |-> 0, typing |-> 0, rows |-> 0])

NextRegister == \E body \in Bodies : Register(body)

SpecRegister == InitRegister /\ [][NextRegister]_vars

\* ------------------------------------------------ conversation groups
\* otherUserId values of join_conversation: identities, nothing, and a string
\* that is itself the key of a conversation
Counterparts == {u1, u2, u3, Undefined, JoinColon(<<u1, u2>>)}
GroupTokens == {NoToken, Jwt(TRUE, u1), Jwt(TRUE, u2), Jwt(TRUE, u3)}

\* no connection, no message, three users
InitGroups ==
  /\ sockets = [c \in Conns |-> [status |-> "new", token |-> NoToken, userId |-> Undefined]]
  /\ rooms = [c \in Conns |-> EmptyBag]
  /\ joinReqs = [c \in Conns |-> EmptyBag]
  /\ messages = {}
  /\ nextId = 1
  /\ pending = {}
  /\ nextReq = 1
  /\ emitted = <<>>
  /\ inbox = [c \in Conns |-> <<>>]
  /\ reads = {}
  /\ clock = 1
  /\ quota = [conns |-> MaxConns, events |-> GroupEvents, sends |-> GroupSends,
              typing |-> 0, rows |-> MaxRows]
  /\ response = NoResponse
  /\ accounts = {UserRow(u1, FALSE), UserRow(u2, FALSE), UserRow(u3, FALSE)}
  /\ posts = {}
  /\ comments = {}
  /\ verifications = {}
  /\ Idle

NextGroups ==
  \/ \E c \in Conns, t \in GroupTokens : Connect(c, t)
  \/ \E c \in Conns, s \in Counterparts : JoinConversation(c, s)
  \/ \E c \in Conns, s \in Counterparts : SendMessage(c, s)
  \/ \E p \in pending : StoreInsert(p)
  \/ \E p \in pending : SendMessageResume(p)

SpecGroups == InitGroups /\ [][NextGroups]_vars

\* --------------------------------------------------------- createRateLimit
Ips == {"ip1", "ip2"}          \* req.ip
Windows == {1000, 1500}        \* windowMs of the limiters tried
Burst == 1..MaxBurst           \* maxRequests of the limiters tried
Elapsed == {0, 1, 999, 1000, 2000}  \* milliseconds between two calls of Date.now()

\* Math.ceil(a / b)
Ceil(a, b) == (a + b - 1) \div b

KeptInclusive(time, windowStart) == time >= windowStart
\* timestamps.filter(time => time > windowStart)
Kept(time, windowStart) == time > windowStart
Filter(timestamps, windowStart) == SelectSeq(timestamps, LAMBDA time : Kept(time, windowStart))

\* the Map after the loop that cleans old requests: every entry filtered, the
\* empty ones deleted
Clean(map, windowStart) ==
  [ip \in {k \in DOMAIN map : Filter(map[k], windowStart) # <<>>} |->
     Filter(map[ip], windowStart)]
\* requests.get(key) || []
Get(map, key) == IF key \in DOMAIN map THEN map[key] ELSE <<>>
\* requests.set(key, value)
Set(map, key, value) == [k \in DOMAIN map \cup {key} |-> IF k = key THEN value ELSE map[k]]

ExceededNever(userRequests, maxRequests) == Len(userRequests) > maxRequests
\* userRequests.length >= maxRequests
Exceeded(userRequests, maxRequests) == Len(userRequests) >= maxRequests

TooManyRequests(windowMs) ==
  [status |-> 429, code |-> "RATE_LIMIT_EXCEEDED", retryAfter |-> Ceil(windowMs, 1000)]
Next0 == [status |-> 0, next |-> TRUE]

\* the middleware createRateLimit returns, handling a request of client key
\* that arrives elapsed milliseconds after the one before
RateLimit(key, elapsed) ==
  /\ Len(served) < MaxHits
  /\ now' = now + elapsed
  /\ LET windowStart == now' - limiter.windowMs
         cleaned == Clean(requests, windowStart)
         userRequests == Get(cleaned, key)
     IN IF Exceeded(userRequests, limiter.maxRequests)
        THEN /\ requests' = cleaned
             /\ response' = TooManyRequests(limiter.windowMs)
        ELSE /\ requests' = Set(cleaned, key, Append(userRequests, now'))
             /\ response' = Next0
  /\ served' = Append(served, [key |-> key, time |-> now', response |-> response'])
  /\ UNCHANGED <<sockets, rooms, joinReqs, messages, nextId, pending, nextReq, emitted, inbox,
                 reads, clock, quota, tables, limiter, routes>>

NoQuota == [conns |-> 0, events |-> 0, sends |-> 0, typing |-> 0, rows |-> 0]
\* no connection, no message and no response yet
RelayIdle ==
  /\ sockets = [c \in Conns |-> [status |-> "new", token |-> NoToken, userId |-> Undefined]]
  /\ rooms = [c \in Conns |-> EmptyBag]
  /\ joinReqs = [c \in Conns |-> EmptyBag]
  /\ messages = {}
  /\ nextId = 1
  /\ pending = {}
  /\ nextReq = 1
  /\ emitted = <<>>
  /\ inbox = [c \in Conns |-> <<>>]
  /\ reads = {}
  /\ clock = 1
  /\ quota = NoQuota
  /\ response = NoResponse
NoRows ==
  /\ accounts = {UserRow(u1, FALSE), UserRow(u2, FALSE)}
  /\ posts = {}
  /\ comments = {}
  /\ verifications = {}

InitLimit ==
  /\ RelayIdle
  /\ NoRows
  /\ NoHandlers
  /\ \E windowMs \in Windows, maxRequests \in Burst : FreshLimiter(windowMs, maxRequests)

NextLimit == \E key \in Ips, elapsed \in Elapsed : RateLimit(key, elapsed)

SpecLimit == InitLimit /\ [][NextLimit]_vars

\* ---------------------------------------------------------- HTTP handlers
\* what an HTTP handler that only reads and writes tables leaves alone
relay == <<sockets, rooms, joinReqs, messages, nextId, pending, nextReq, emitted, inbox,
           reads, clock, quota>>

\* a handler that has just been called with request req, about to make call pc
Called(route, req, pc) ==
  [route |-> route, req |-> req, pc |-> pc, data |-> <<>>, answer |-> "ok", fault |-> FALSE,
   response |-> NoResponse]
Running(rid, route, pc) ==
  rid \in DOMAIN handlers /\ handlers[rid].route = route /\ handlers[rid].pc = pc
\* the store answer st is a failure of the store itself, not an answer about rows
Fault(st) == st # "ok"
\* handler rid got answer st and goes on to call pc
Goto(rid, pc, st) ==
  [handlers EXCEPT ![rid].pc = pc, ![rid].answer = st, ![rid].fault = @ \/ Fault(st)]
\* handler rid got answer st, keeps data and goes on to call pc
GotoWith(rid, pc, st, data) ==
  [handlers EXCEPT ![rid].pc = pc, ![rid].answer = st, ![rid].fault = @ \/ Fault(st),
                   ![rid].data = data]
\* handler rid got answer st and writes response res
Respond(rid, res, st) ==
  [handlers EXCEPT ![rid].pc = "done", ![rid].answer = st, ![rid].fault = @ \/ Fault(st),
                   ![rid].response = res]
Json(status, code) == [status |-> status, code |-> code]

\* ------------------------------------------------------- POST /:id/like
LikeRoute == "POST /posts/:id/like"
LikeRow(userId, postId) == [user_id |-> userId, post_id |-> postId]

\* authenticateToken has set req.user; the handler is called
Like(userId, postId) ==
  /\ Len(handlers) < MaxLikes
  /\ userId \in users
  /\ handlers' = Append(handlers, Called(LikeRoute, LikeRow(userId, postId), "getPostById"))
  /\ UNCHANGED <<relay, tables, response, limits, likes, reports>>

\* DatabaseService.getPostById answers
LikeGetPost(rid, st) ==
  /\ Running(rid, LikeRoute, "getPostById")
  /\ LET found == \E x \in posts : x.id = handlers[rid].req.post_id
         res == IF st = "threw" THEN Json(500, "LIKE_ERROR") ELSE Json(404, "POST_NOT_FOUND")
     IN IF st = "ok" /\ found
        THEN /\ handlers' = Goto(rid, "isPostLiked", st)
             /\ UNCHANGED response
        ELSE /\ handlers' = Respond(rid, res, st)
             /\ response' = res
  /\ UNCHANGED <<relay, tables, limits, likes, reports>>

\* DatabaseService.isPostLiked answers: data is !!data, whatever the error
LikeIsLiked(rid, st) ==
  /\ Running(rid, LikeRoute, "isPostLiked")
  /\ LET isLiked == st = "ok" /\ \E l \in likes : /\ l.user_id = handlers[rid].req.user_id
                                                   /\ l.post_id = handlers[rid].req.post_id
         res == IF st = "threw" THEN Json(500, "LIKE_ERROR") ELSE Json(400, "ALREADY_LIKED")
     IN IF st = "threw" \/ isLiked
        THEN /\ handlers' = Respond(rid, res, st)
             /\ response' = res
        ELSE /\ handlers' = Goto(rid, "likePost", st)
             /\ UNCHANGED response
  /\ UNCHANGED <<relay, tables, limits, likes, reports>>

LikeAllowedTwice(row) ==
  /\ \E a \in accounts : a.id = row.user_id
  /\ \E x \in posts : x.id = row.post_id
\* the constraints of the likes table: both references, UNIQUE(user_id, post_id)
LikeAllowed(row) ==
  /\ \E a \in accounts : a.id = row.user_id
  /\ \E x \in posts : x.id = row.post_id
  /\ row \notin {[user_id |-> l.user_id, post_id |-> l.post_id] : l \in likes}

\* DatabaseService.likePost answers
LikeInsert(rid, st) ==
  /\ Running(rid, LikeRoute, "likePost")
  /\ LET row == handlers[rid].req
         res == IF st = "threw" THEN Json(500, "LIKE_ERROR")
                ELSE IF st = "ok" /\ LikeAllowed(row) THEN Json(200, "")
                ELSE Json(500, "LIKE_FAILED")
     IN /\ likes' = IF st = "ok" /\ LikeAllowed(row)
                    THEN likes \cup {[id |-> rid, user_id |-> row.user_id, post_id |-> row.post_id]}
                    ELSE likes
        /\ handlers' = Respond(rid, res, st)
        /\ response' = res
  /\ UNCHANGED <<relay, tables, limits, reports>>

InitLikes ==
  /\ RelayIdle
  /\ accounts = {UserRow(u1, FALSE), UserRow(u2, FALSE)}
  /\ posts = {PostRow(1, u1, "approved")}
  /\ comments = {}
  /\ verifications = {}
  /\ Idle

NextLikes ==
  \/ \E userId \in users, postId \in RowIds : Like(userId, postId)
  \/ \E rid \in 1..MaxLikes, st \in Answers3 :
       \/ LikeGetPost(rid, st)
       \/ LikeIsLiked(rid, st)
       \/ LikeInsert(rid, st)

SpecLikes == InitLikes /\ [][NextLikes]_vars

\* ------------------------------------------------- POST /verification/submit
SubmitRoute == "POST /verification/submit"
ReviewRoute == "POST /verification/admin/review"
\* a row of the users table with the columns the verification routes write
Member(id, admin) ==
  [id |-> id, is_admin |-> admin, is_verified |-> FALSE, verification_status |-> "none"]
\* uuidv4() of handler rid
Uuid(rid) == rid + 1
Active == {"pending", "approved"}
\* the rows .eq('user_id', userId).in('status', ['pending', 'approved'])
ActiveRequests(userId) == {x \in verifications : x.user_id = userId /\ x.status \in Active}

ExistingRequestFirst(userId) == ActiveRequests(userId) # {}
\* .single() has data when exactly one row matches
ExistingRequest(userId) == Cardinality(ActiveRequests(userId)) = 1

\* authenticateToken has set req.user; the handler is called and tests the body
Submit(userId, complete) ==
  /\ Len(handlers) < MaxVerify
  /\ userId \in users
  /\ LET call == Called(SubmitRoute, [user_id |-> userId, complete |-> complete], "select")
     IN IF complete
        THEN /\ handlers' = Append(handlers, call)
             /\ UNCHANGED response
        ELSE /\ handlers' = Append(handlers, [call EXCEPT !.pc = "done",
                                                           !.response = Json(400, "")])
             /\ response' = Json(400, "")
  /\ UNCHANGED <<relay, tables, limits, likes, reports>>

\* the select of the user's pending or approved request answers; its error
\* is not read
SubmitSelect(rid, st) ==
  /\ Running(rid, SubmitRoute, "select")
  /\ LET existingRequest == st = "ok" /\ ExistingRequest(handlers[rid].req.user_id)
         res == IF st = "threw" THEN Json(500, "") ELSE Json(400, "")
     IN IF st = "threw" \/ existingRequest
        THEN /\ handlers' = Respond(rid, res, st)
             /\ response' = res
        ELSE /\ handlers' = Goto(rid, "insert", st)
             /\ UNCHANGED response
  /\ UNCHANGED <<relay, tables, limits, likes, reports>>

\* the insert into verification_requests answers
SubmitInsert(rid, st) ==
  /\ Running(rid, SubmitRoute, "insert")
  /\ IF st = "ok"
     THEN /\ verifications' = verifications
                \cup {VerificationRow(Uuid(rid), handlers[rid].req.user_id, "pending")}
          /\ handlers' = Goto(rid, "update", st)
          /\ UNCHANGED response
     ELSE /\ handlers' = Respond(rid, Json(500, ""), st)
          /\ response' = Json(500, "")
          /\ UNCHANGED verifications
  /\ UNCHANGED <<relay, accounts, posts, comments, limits, likes, reports>>

\* rows of the users table after .update(updates).eq('id', id)
UpdateUser(id, updates) ==
  {IF a.id = id THEN [f \in DOMAIN a |-> IF f \in DOMAIN updates THEN updates[f] ELSE a[f]]
   ELSE a : a \in accounts}

\* the update of users.verification_status answers; its error is not read
SubmitUpdate(rid, st) ==
  /\ Running(rid, SubmitRoute, "update")
  /\ LET res == IF st = "threw" THEN Json(500, "") ELSE Json(201, "")
     IN /\ accounts' = IF st = "ok"
                       THEN UpdateUser(handlers[rid].req.user_id,
                                       [verification_status |-> "pending"])
                       ELSE accounts
        /\ handlers' = Respond(rid, res, st)
        /\ response' = res
  /\ UNCHANGED <<relay, posts, comments, verifications, limits, likes, reports>>

\* ------------------------------------------- POST /verification/admin/review
\* authenticateToken and requireAdmin have called next(); the handler is
\* called and tests the body
Review(adminId, verification_id, action) ==
  /\ Len(handlers) < MaxVerify
  /\ \E a \in accounts : a.id = adminId /\ a.is_admin
  /\ LET call == Called(ReviewRoute, [adminId |-> adminId, verification_id |-> verification_id,
                                      action |-> action], "select")
     IN IF verification_id # 0 /\ action \in {"approve", "reject"}
        THEN /\ handlers' = Append(handlers, call)
             /\ UNCHANGED response
        ELSE /\ handlers' = Append(handlers, [call EXCEPT !.pc = "done",
                                                           !.response = Json(400, "")])
             /\ response' = Json(400, "")
  /\ UNCHANGED <<relay, tables, limits, likes, reports>>

\* the select of the verification request answers
ReviewSelect(rid, st) ==
  /\ Running(rid, ReviewRoute, "select")
  /\ LET found == {x \in verifications : x.id = handlers[rid].req.verification_id}
         verificationRequest == CHOOSE x \in found : TRUE
         res == IF st = "threw" THEN Json(500, "")
                ELSE IF st = "error" \/ found = {} THEN Json(404, "")
                ELSE Json(400, "already been reviewed")
     IN IF st = "ok" /\ found # {} /\ verificationRequest.status = "pending"
        THEN /\ handlers' = GotoWith(rid, "update", st, verificationRequest)
             /\ UNCHANGED response
        ELSE /\ handlers' = Respond(rid, res, st)
             /\ response' = res
  /\ UNCHANGED <<relay, tables, limits, likes, reports>>

ReviewedIfPending(verification_id, newStatus) ==
  {IF x.id = verification_id /\ x.status = "pending" THEN [x EXCEPT !.status = newStatus] ELSE x
   : x \in verifications}
\* rows of verification_requests after .update({status: newStatus}).eq('id', verification_id)
Reviewed(verification_id, newStatus) ==
  {IF x.id = verification_id THEN [x EXCEPT !.status = newStatus] ELSE x : x \in verifications}

\* the update of the verification request answers
ReviewUpdate(rid, st) ==
  /\ Running(rid, ReviewRoute, "update")
  /\ IF st = "ok"
     THEN /\ verifications' = Reviewed(handlers[rid].req.verification_id,
                                       NewStatus(handlers[rid].req.action))
          /\ handlers' = Goto(rid, "updateUser", st)
          /\ UNCHANGED response
     ELSE /\ handlers' = Respond(rid, Json(500, ""), st)
          /\ response' = Json(500, "")
          /\ UNCHANGED verifications
  /\ UNCHANGED <<relay, accounts, posts, comments, limits, likes, reports>>

\* the update of the user's is_verified and verification_status answers
ReviewUpdateUser(rid, st) ==
  /\ Running(rid, ReviewRoute, "updateUser")
  /\ LET res == IF st = "ok" THEN Json(200, "") ELSE Json(500, "")
     IN /\ accounts' = IF st = "ok"
                       THEN UpdateUser(handlers[rid].data.user_id,
                                       [is_verified |-> handlers[rid].req.action = "approve",
                                        verification_status |-> NewStatus(handlers[rid].req.action)])
                       ELSE accounts
        /\ handlers' = Respond(rid, res, st)
        /\ response' = res
  /\ UNCHANGED <<relay, posts, comments, verifications, limits, likes, reports>>

\* an admin u1, a user u2 whose verification request 1 is pending
InitVerify ==
  /\ RelayIdle
  /\ accounts = {Member(u1, TRUE), [Member(u2, FALSE) EXCEPT !.verification_status = "pending"]}
  /\ posts = {}
  /\ comments = {}
  /\ verifications = {VerificationRow(1, u2, "pending")}
  /\ Idle

NextVerify ==
  \/ \E userId \in users, complete \in BOOLEAN : Submit(userId, complete)
  \/ \E adminId \in users, id \in RowIds, action \in Actions : Review(adminId, id, action)
  \/ \E rid \in 1..MaxVerify, st \in Answers3 :
       \/ SubmitSelect(rid, st)
       \/ SubmitInsert(rid, st)
       \/ SubmitUpdate(rid, st)
       \/ ReviewSelect(rid, st)
       \/ ReviewUpdate(rid, st)
       \/ ReviewUpdateUser(rid, st)

SpecVerify == InitVerify /\ [][NextVerify]_vars

\* ------------------------------------------------- POST /moderation/report
ReportRoute == "POST /moderation/report"
\* a row of the posts table with its reports_count column
CountedPost(id, author, status, count) ==
  [id |-> id, user_id |-> author, moderation_status |-> status, reports_count |-> count]
ReportRow(id, post_id, reporterId) == [id |-> id, post_id |-> post_id, reporter_id |-> reporterId]
\* the rows .eq('post_id', post_id) of post_reports
ReportsOf(post_id) == {x \in reports : x.post_id = post_id}
\* rows of the posts table after .update(updates).eq('id', id)
UpdatePost(id, updates) ==
  {IF x.id = id THEN [f \in DOMAIN x |-> IF f \in DOMAIN updates THEN updates[f] ELSE x[f]]
   ELSE x : x \in posts}

\* authenticateToken has set req.user; the handler is called and tests the body
Report(reporterId, post_id, reason) ==
  /\ Len(handlers) < MaxReports
  /\ reporterId \in users
  /\ LET call == Called(ReportRoute, [reporter_id |-> reporterId, post_id |-> post_id,
                                      reason |-> reason], "selectPost")
     IN IF post_id # 0 /\ reason # ""
        THEN /\ handlers' = Append(handlers, call)
             /\ UNCHANGED response
        ELSE /\ handlers' = Append(handlers, [call EXCEPT !.pc = "done",
                                                           !.response = Json(400, "")])
             /\ response' = Json(400, "")
  /\ UNCHANGED <<relay, tables, limits, likes, reports>>

\* the select of the post answers
ReportSelectPost(rid, st) ==
  /\ Running(rid, ReportRoute, "selectPost")
  /\ LET found == \E x \in posts : x.id = handlers[rid].req.post_id
         res == IF st = "threw" THEN Json(500, "") ELSE Json(404, "")
     IN IF st = "ok" /\ found
        THEN /\ handlers' = Goto(rid, "selectReport", st)
             /\ UNCHANGED response
        ELSE /\ handlers' = Respond(rid, res, st)
             /\ response' = res
  /\ UNCHANGED <<relay, tables, limits, likes, reports>>

\* the select of the reporter's report of the post answers; its error is not read
ReportSelectReport(rid, st) ==
  /\ Running(rid, ReportRoute, "selectReport")
  /\ LET existingReport == /\ st = "ok"
                           /\ \E x \in ReportsOf(handlers[rid].req.post_id) :
                                x.reporter_id = handlers[rid].req.reporter_id
         res == IF st = "threw" THEN Json(500, "") ELSE Json(400, "")
     IN IF st = "threw" \/ existingReport
        THEN /\ handlers' = Respond(rid, res, st)
             /\ response' = res
        ELSE /\ handlers' = Goto(rid, "insert", st)
             /\ UNCHANGED response
  /\ UNCHANGED <<relay, tables, limits, likes, reports>>

\* the constraints of post_reports: both references, UNIQUE(post_id, reporter_id)
ReportAllowed(row) ==
  /\ \E a \in accounts : a.id = row.reporter_id
  /\ \E x \in posts : x.id = row.post_id
  /\ ~\E x \in ReportsOf(row.post_id) : x.reporter_id = row.reporter_id

\* the posts after trigger_update_post_reports_count has run for an insert
UpdatePostReportsCount(post_id) ==
  {IF x.id = post_id THEN [x EXCEPT !.reports_count = @ + 1] ELSE x : x \in posts}

\* the insert into post_reports answers
ReportInsert(rid, st) ==
  /\ Running(rid, ReportRoute, "insert")
  /\ LET row == ReportRow(Uuid(rid), handlers[rid].req.post_id, handlers[rid].req.reporter_id)
     IN IF st = "ok" /\ ReportAllowed(row)
        THEN /\ reports' = reports \cup {row}
             /\ posts' = UpdatePostReportsCount(row.post_id)
             /\ handlers' = Goto(rid, "count", st)
             /\ UNCHANGED response
        ELSE /\ handlers' = Respond(rid, Json(500, ""), st)
             /\ response' = Json(500, "")
             /\ UNCHANGED <<reports, posts>>
  /\ UNCHANGED <<relay, accounts, comments, verifications, limits, likes>>

\* the select of the post's reports answers: data is the rows, or null
ReportCount(rid, st) ==
  /\ Running(rid, ReportRoute, "count")
  /\ IF st = "threw"
     THEN /\ handlers' = Respond(rid, Json(500, ""), st)
          /\ response' = Json(500, "")
     ELSE /\ handlers' =
               GotoWith(rid, "update", st,
                        IF st = "ok"
                        THEN [length |-> Cardinality(ReportsOf(handlers[rid].req.post_id))]
                        ELSE <<>>)
          /\ UNCHANGED response
  /\ UNCHANGED <<relay, tables, limits, likes, reports>>

\* reportCount?.length || 0
Length(reportCount) == IF "length" \in DOMAIN reportCount THEN reportCount.length ELSE 0

PostUpdatesNoCount(reportCount) ==
  IF "length" \in DOMAIN reportCount /\ reportCount.length = 1
  THEN [moderation_status |-> "reported"]
  ELSE <<>>
\* what the handler writes into the post after it has read reportCount
PostUpdates(reportCount) ==
  IF "length" \in DOMAIN reportCount /\ reportCount.length = 1
  THEN [moderation_status |-> "reported", reports_count |-> 1]
  ELSE [reports_count |-> Length(reportCount)]

\* the update of the post answers; its error is not read
ReportUpdate(rid, st) ==
  /\ Running(rid, ReportRoute, "update")
  /\ LET res == IF st = "threw" THEN Json(500, "") ELSE Json(201, "")
     IN /\ posts' = IF st = "ok"
                    THEN UpdatePost(handlers[rid].req.post_id, PostUpdates(handlers[rid].data))
                    ELSE posts
        /\ handlers' = Respond(rid, res, st)
        /\ response' = res
  /\ UNCHANGED <<relay, accounts, comments, verifications, limits, likes, reports>>

\* two users, a post of u1 that nobody has reported
InitReports ==
  /\ RelayIdle
  /\ accounts = {UserRow(u1, FALSE), UserRow(u2, FALSE)}
  /\ posts = {CountedPost(1, u1, "approved", 0)}
  /\ comments = {}
  /\ verifications = {}
  /\ Idle

\* req.body.reason: '' stands for a missing reason too
Reasons == {"", "spam"}

NextReports ==
  \/ \E reporterId \in users, post_id \in {0} \cup RowIds, reason \in Reasons :
       Report(reporterId, post_id, reason)
  \/ \E rid \in 1..MaxReports, st \in Answers3 :
       \/ ReportSelectPost(rid, st)
       \/ ReportSelectReport(rid, st)
       \/ ReportInsert(rid, st)
       \/ ReportCount(rid, st)
       \/ ReportUpdate(rid, st)

SpecReports == InitReports /\ [][NextReports]_vars

\* ---------------------------------------------------- POST /auth/register
RegisterRoute == "POST /auth/register"
\* String.prototype.toLowerCase() on the letters A to Z
ToLowerCase(str) == [i \in DOMAIN str |-> IF str[i] \in Upper THEN str[i] + 32 ELSE str[i]]

bob == <<98, 111, 98>>                \* "bob"
Bob == <<66, 111, 98>>                \* "Bob"
amy == <<97, 109, 121>>               \* "amy"
bobMail == <<98, At, 99, Dot, 100>>   \* "b@c.d"
BobMail == <<66, At, 99, Dot, 100>>   \* "B@c.d"
amyMail == <<97, At, 99, Dot, 100>>   \* "a@c.d"
\* a password and a display name that validateRegistration accepts
GoodPassword == <<65, 98, 99, 100, 101, 102, 49, 33>>
GoodName == <<120>>
\* the bodies of the registration requests tried
Signups ==
  [username : {bob, Bob, amy}, email : {bobMail, BobMail, amyMail},
   password : {GoodPassword}, display_name : {GoodName}]

\* a row of the users table with its username and email
Account(id, username, email) ==
  [id |-> id, username |-> username, email |-> email, is_admin |-> FALSE, is_verified |-> FALSE]
\* uuid_generate_v4() for the row of handler rid
NewUserId(rid) == <<117, 49 + rid>>

GetUserByEmailAnyCase(email) == {a \in accounts : a.email = ToLowerCase(email)}
\* the rows .eq('email', email)
GetUserByEmail(email) == {a \in accounts : a.email = email}
\* the rows .eq('username', username)
GetUserByUsername(username) == {a \in accounts : a.username = username}

\* authRateLimit and validateRegistration have called next(); the handler is called
RegisterUser(body) ==
  /\ Len(handlers) < MaxSignups
  /\ ValidateRegistration(body).next
  /\ handlers' = Append(handlers, Called(RegisterRoute, body, "getUserByEmail"))
  /\ UNCHANGED <<relay, tables, response, limits, likes, reports>>

\* DatabaseService.getUserByEmail answers; its error is not read
RegisterByEmail(rid, st) ==
  /\ Running(rid, RegisterRoute, "getUserByEmail")
  /\ LET existingUserByEmail == st = "ok" /\ GetUserByEmail(handlers[rid].req.email) # {}
         res == IF st = "threw" THEN Json(500, "REGISTRATION_ERROR")
                ELSE Json(400, "EMAIL_EXISTS")
     IN IF st = "threw" \/ existingUserByEmail
        THEN /\ handlers' = Respond(rid, res, st)
             /\ response' = res
        ELSE /\ handlers' = Goto(rid, "getUserByUsername", st)
             /\ UNCHANGED response
  /\ UNCHANGED <<relay, tables, limits, likes, reports>>

\* DatabaseService.getUserByUsername answers; its error is not read
RegisterByUsername(rid, st) ==
  /\ Running(rid, RegisterRoute, "getUserByUsername")
  /\ LET existingUserByUsername ==
           st = "ok" /\ GetUserByUsername(handlers[rid].req.username) # {}
         res == IF st = "threw" THEN Json(500, "REGISTRATION_ERROR")
                ELSE Json(400, "USERNAME_EXISTS")
     IN IF st = "threw" \/ existingUserByUsername
        THEN /\ handlers' = Respond(rid, res, st)
             /\ response' = res
        ELSE /\ handlers' = Goto(rid, "createUser", st)
             /\ UNCHANGED response
  /\ UNCHANGED <<relay, tables, limits, likes, reports>>

\* the constraints of the users table: username and email UNIQUE, username
\* of 3 characters or more
UserAllowed(row) ==
  /\ Len(row.username) >= 3
  /\ \A a \in accounts : a.username # row.username /\ a.email # row.email

\* hashPassword has answered and DatabaseService.createUser answers
RegisterCreate(rid, st) ==
  /\ Running(rid, RegisterRoute, "createUser")
  /\ LET row == Account(NewUserId(rid), ToLowerCase(handlers[rid].req.username),
                        ToLowerCase(handlers[rid].req.email))
         res == IF st = "threw" THEN Json(500, "REGISTRATION_ERROR")
                ELSE IF st = "ok" /\ UserAllowed(row) THEN Json(201, "")
                ELSE Json(500, "USER_CREATION_FAILED")
     IN /\ accounts' = IF st = "ok" /\ UserAllowed(row) THEN accounts \cup {row} ELSE accounts
        /\ handlers' = Respond(rid, res, st)
        /\ response' = res
  /\ UNCHANGED <<relay, posts, comments, verifications, limits, likes, reports>>

\* one user, bob
InitSignup ==
  /\ RelayIdle
  /\ accounts = {Account(u1, bob, bobMail)}
  /\ posts = {}
  /\ comments = {}
  /\ verifications = {}
  /\ Idle

NextSignup ==
  \/ \E body \in Signups : RegisterUser(body)
  \/ \E rid \in 1..MaxSignups, st \in Answers3 :
       \/ RegisterByEmail(rid, st)
       \/ RegisterByUsername(rid, st)
       \/ RegisterCreate(rid, st)

SpecSignup == InitSignup /\ [][NextSignup]_vars

\* ------------------------------------------- PUT /messages/:otherUserId/read
MarkedAny(m, userId, otherUserId) == m.sender_id = otherUserId /\ m.receiver_id = userId
\* .eq('sender_id', otherUserId).eq('receiver_id', userId).is('read_at', null)
Marked(m, userId, otherUserId) ==
  m.sender_id = otherUserId /\ m.receiver_id = userId /\ m.read_at = 0

\* markMessagesAsRead, for req.user.id = userId: one update, which the store
\* performs or fails
MarkMessagesAsRead(userId, otherUserId) ==
  /\ clock <= MaxStamps
  /\ IF userId = Undefined
     THEN /\ response' = Status(401)
          /\ UNCHANGED <<messages, clock>>
     ELSE \/ /\ messages' = {IF Marked(m, userId, otherUserId)
                             THEN [m EXCEPT !.read_at = clock] ELSE m : m \in messages}
             /\ clock' = clock + 1
             /\ response' = Status(200)
          \/ /\ response' = Status(500)
             /\ UNCHANGED <<messages, clock>>
  /\ UNCHANGED <<sockets, rooms, joinReqs, nextId, pending, nextReq, emitted, inbox, reads,
                 quota, tables, backend>>

\* no connection; a message of u1 to u2 and one of u2 to u1, both unread
InitRead ==
  /\ sockets = [c \in Conns |-> [status |-> "new", token |-> NoToken, userId |-> Undefined]]
  /\ rooms = [c \in Conns |-> EmptyBag]
  /\ joinReqs = [c \in Conns |-> EmptyBag]
  /\ messages = {[id |-> 1, sender_id |-> u1, receiver_id |-> u2, read_at |-> 0],
                 [id |-> 2, sender_id |-> u2, receiver_id |-> u1, read_at |-> 0]}
  /\ nextId = 3
  /\ pending = {}
  /\ nextReq = 1
  /\ emitted = <<>>
  /\ inbox = [c \in Conns |-> <<>>]
  /\ reads = {}
  /\ clock = 1
  /\ quota = NoQuota
  /\ response = NoResponse
  /\ NoRows
  /\ Idle

NextRead ==
  \/ \E u \in users, o \in users, q \in Queries : GetMessages(u, o, q[1], q[2])
  \/ \E r \in reads : GetMessagesUpdate(r)
  \/ \E u \in users \cup {Undefined}, o \in users : MarkMessagesAsRead(u, o)

SpecRead == InitRead /\ [][NextRead]_vars

\* ===================================================== properties
Connected(c) == sockets[c].status = "connected"
UserOf(c) == sockets[c].userId

Count(seq, x) == Len(SelectSeq(seq, LAMBDA y : y = x))
OfEvent(seq, name) == SelectSeq(seq, LAMBDA e : e.ev.event = name)

\* the key of the unordered pair of identities S, smaller identity first
CanonicalKey(S) ==
  LET lo == CHOOSE x \in S : \A y \in S : x = y \/ StrLess(x, y)
      hi == CHOOSE x \in S : \A y \in S : x = y \/ StrLess(y, x)
  IN lo \o <<Colon>> \o hi

Failed(p) == p.st \in {"error", "threw"}
\* this step is the part of send_message after the await, for handler p
Resumes(p) == p \in pending /\ ~p.done /\ [p EXCEPT !.done = TRUE] \in pending'
\* this step is the store answering the insert of handler p with q
Answers(p, q) ==
  p \in pending /\ p.st = "await" /\ q \in pending' /\ q.rid = p.rid /\ q.st # "await"

\* ---------------------------------------------------------------- C1
C1_State ==
  \A p \in pending : p.st = "ok" =>
    LET s == UserOf(p.socket)
        r == p.receiverId
        bc == SelectSeq(emitted, LAMBDA e : e.ev.event = "new_message"
                                            /\ e.ev.message.id = p.message.id)
    IN /\ s # r
       /\ p.message.sender_id = s /\ p.message.receiver_id = r /\ p.message.read_at = 0
       /\ p.message.id \in 1..(nextId - 1)
       /\ \A q \in pending : (q.st = "ok" /\ q # p) => q.message.id # p.message.id
       /\ Cardinality({m \in messages : m.id = p.message.id}) <= 1
       /\ \A m \in messages : m.id = p.message.id => m.sender_id = s /\ m.receiver_id = r
       /\ Len(bc) = IF p.done THEN 1 ELSE 0
       /\ \A i \in 1..Len(bc) :
            /\ bc[i].room = ConversationRoom(CanonicalKey({s, r}))
            /\ bc[i].ev = NewMessage(p.message)
            /\ bc[i].socket = p.socket
            /\ ~bc[i].except
C1_Insert ==
  \A p \in pending : \A q \in pending' :
    (Answers(p, q) /\ q.st = "ok") =>
      /\ q.message \notin messages
      /\ messages' = messages \cup {q.message}
\* C1: a send_message from an authenticated connection of s naming r # s whose
\* insert succeeds persists exactly one row (sender s, receiver r, read_at unset)
\* and makes exactly one new_message emit, carrying that row, to the room of the
\* canonical key of {s, r}, the same room whichever of the two is the sender.
C1_OneRowOneBroadcast == [](C1_State) /\ [][C1_Insert]_vars

\* u2 has sent to u1, and a connection of u1 that joined naming u2 got the row
C1_Witness ==
  \E p \in pending : \E c \in Conns :
    /\ p.st = "ok" /\ p.done
    /\ UserOf(p.socket) = u2 /\ p.receiverId = u1
    /\ c # p.socket /\ UserOf(c) = u1 /\ BagIn(u2, joinReqs[c])
    /\ Count(inbox[c], NewMessage(p.message)) = 1
    /\ p.message \in messages

\* ---------------------------------------------------------------- C2
C2_State ==
  /\ \A p \in pending : Failed(p) => p.message = Null
  /\ \A c \in Conns :
       Len(SelectSeq(emitted, LAMBDA e : e.ev.event = "message_error" /\ e.socket = c))
         = Cardinality({p \in pending : Failed(p) /\ p.done /\ p.socket = c})
  /\ \A i \in 1..Len(emitted) :
       LET e == emitted[i] IN
       /\ e.ev.event = "message_error" => e.room = SocketRoom(e.socket) /\ ~e.except
       /\ e.ev.event \in {"new_message", "message_notification"} =>
            \E p \in pending : p.st = "ok" /\ p.done /\ p.socket = e.socket
                               /\ e.ev.message = p.message
  /\ Len(OfEvent(emitted, "new_message")) = Cardinality({p \in pending : p.st = "ok" /\ p.done})
  /\ Len(OfEvent(emitted, "message_notification"))
       = Cardinality({p \in pending : p.st = "ok" /\ p.done})
  /\ \A c \in Conns :
       Count(inbox[c], MessageError)
         <= Cardinality({p \in pending : Failed(p) /\ p.done /\ p.socket = c})
C2_Step ==
  \A p \in pending :
    /\ \A q \in pending' : (Answers(p, q) /\ Failed(q)) => messages' = messages /\ nextId' = nextId
    /\ (Resumes(p) /\ Failed(p)) =>
         /\ messages' = messages
         /\ \A c \in Conns :
              inbox'[c] = IF c = p.socket /\ Connected(c)
                          THEN Append(inbox[c], MessageError) ELSE inbox[c]
\* C2: when the insert of a send_message fails (error result or exception) no
\* row is added, no new_message and no message_notification is emitted, and
\* exactly one message_error is emitted, to the originating socket only.
C2_FailureReportedToSenderOnly == [](C2_State) /\ [][C2_Step]_vars

\* a failed send has been reported to its connection while the other
\* connection, the named receiver's, is connected and has received nothing
C2_Witness ==
  \E p \in pending : \E c \in Conns :
    /\ Failed(p) /\ p.done
    /\ inbox[p.socket] = <<MessageError>>
    /\ c # p.socket /\ Connected(c) /\ UserOf(c) = p.receiverId
    /\ inbox[c] = <<>>
    /\ messages = {}

\* ---------------------------------------------------------------- C3
CredentialOK(token) == token.present /\ token.verifies /\ token.userId \in users

\* C3: a connection whose handshake token is missing, fails verification or
\* names a user that does not exist is in no room, has had none of its events
\* handled (no join, no send, no emit on its behalf) and has received nothing.
C3_RejectedNeverEnrolled ==
  \A c \in Conns :
    (sockets[c].status # "new" /\ ~CredentialOK(sockets[c].token)) =>
      /\ sockets[c].status = "rejected"
      /\ rooms[c] = EmptyBag
      /\ joinReqs[c] = EmptyBag
      /\ inbox[c] = <<>>
      /\ \A p \in pending : p.socket # c
      /\ \A i \in 1..Len(emitted) : emitted[i].socket # c

\* the first connection presented a token for u1 that does not verify, and the
\* second connection then emitted to the personal room of u1
C3_Witness ==
  /\ sockets[1].token = Jwt(FALSE, u1) /\ sockets[1].status = "rejected"
  /\ \E i \in 1..Len(emitted) : emitted[i].socket = 2 /\ emitted[i].room = UserRoom(u1)
  /\ inbox[1] = <<>>

\* ---------------------------------------------------------------- C4
C4_Step ==
  \A p \in pending : (Resumes(p) /\ p.st = "ok") =>
    \A c \in Conns : (Connected(c) /\ UserOf(c) = p.receiverId) =>
      Count(inbox'[c], MessageNotification(UserOf(p.socket), p.message))
        = Count(inbox[c], MessageNotification(UserOf(p.socket), p.message)) + 1
\* C4: when a send_message from s to r succeeds, every connection authenticated
\* as r and connected at that moment receives the message_notification (sender
\* id and row), whether or not it has joined the conversation with s.
C4_ReceiverNotified == [][C4_Step]_vars

\* a connection that never joined anything has received a notification
C4_Witness ==
  \E c \in Conns :
    /\ joinReqs[c] = EmptyBag
    /\ \E i \in 1..Len(inbox[c]) : inbox[c][i].event = "message_notification"

\* ---------------------------------------------------------------- C5
\* this step is typing_start (flag) or typing_stop (~flag) handled for socket c
TypingStep(c, receiverId, flag) ==
  /\ Registered(c)
  /\ IF flag THEN TypingStart(c, receiverId) ELSE TypingStop(c, receiverId)
InPersonalGroup(d, id) == Connected(d) /\ UserOf(d) = id

C5_OriginalStep ==
  \A c \in Conns, r \in Strings, flag \in BOOLEAN : TypingStep(c, r, flag) =>
    \A d \in Conns :
      /\ (InPersonalGroup(d, r) /\ UserOf(d) # UserOf(c)) =>
           inbox'[d] = Append(inbox[d], UserTyping(UserOf(c), flag))
      /\ UserOf(d) = UserOf(c) => inbox'[d] = inbox[d]
\* C5 as stated: typing_start then typing_stop naming r deliver user_typing
\* true, then false, to every connection in the personal room of r, and
\* neither event is delivered to any connection of the sender.
C5_Original == [][C5_OriginalStep]_vars

C5_AmendedStep ==
  \A c \in Conns, r \in Strings, flag \in BOOLEAN : TypingStep(c, r, flag) =>
    \A d \in Conns :
      inbox'[d] = IF InPersonalGroup(d, r) /\ d # c
                  THEN Append(inbox[d], UserTyping(UserOf(c), flag))
                  ELSE inbox[d]
\* C5 amended: typing_start then typing_stop naming r deliver user_typing true,
\* then false, exactly once each and in that order, to every connection in the
\* personal room of r other than the emitting connection, and to nobody else;
\* so a connection of the sender receives them only when r is the sender's own
\* identity, and the emitting connection never does.
C5_TypingReachesReceiverOnly == [][C5_AmendedStep]_vars

\* a connection of another identity holds true then false from one sender
C5_Witness ==
  \E d \in Conns : \E s \in users :
    /\ UserOf(d) # s
    /\ inbox[d] = <<UserTyping(s, TRUE), UserTyping(s, FALSE)>>

\* ---------------------------------------------------------------- C6
\* connection c, still connected, has handled a join naming other
Joined(c, other) == Connected(c) /\ BagIn(other, joinReqs[c])

\* C6: the conversation key is symmetric: the key a connection of a computes
\* naming b is the key a connection of b computes naming a, so two connections
\* that joined naming each other are in one room, and a new_message for a row
\* between them is emitted to that room whichever of them sent it.
C6_KeySymmetric ==
  /\ \A a \in Strings, b \in Strings : ConversationId(a, b) = ConversationId(b, a)
  /\ \A c \in Conns, d \in Conns :
       (Joined(c, UserOf(d)) /\ Joined(d, UserOf(c))) =>
         \E room \in BagToSet(rooms[c]) \cap BagToSet(rooms[d]) :
           room = ConversationRoom(ConversationId(UserOf(c), UserOf(d)))
  /\ \A i \in 1..Len(emitted) : \A d \in Conns :
       LET e == emitted[i] IN
       (/\ e.ev.event = "new_message"
        /\ \/ UserOf(d) = e.ev.message.sender_id /\ Joined(d, e.ev.message.receiver_id)
           \/ UserOf(d) = e.ev.message.receiver_id /\ Joined(d, e.ev.message.sender_id))
       => BagIn(e.room, rooms[d])

\* a connection of u1 joined naming u2, a connection of u2 joined naming u1,
\* and a message sent by u2 reached the connection of u1 through their room
C6_Witness ==
  \E c \in Conns, d \in Conns :
    /\ UserOf(c) = u1 /\ UserOf(d) = u2
    /\ Joined(c, u2) /\ Joined(d, u1)
    /\ \E i \in 1..Len(inbox[c]) :
         inbox[c][i].event = "new_message" /\ inbox[c][i].message.sender_id = u2

\* ---------------------------------------------------------------- C7
C7_State ==
  \A c \in Conns :
    /\ \A room \in BagToSet(rooms[c]) : CopiesIn(room, rooms[c]) = 1
    /\ \A i \in 1..Len(inbox[c]) :
         inbox[c][i].event = "new_message" => Count(inbox[c], inbox[c][i]) = 1
C7_Step ==
  \A p \in pending : (Resumes(p) /\ p.st = "ok") =>
    \A c \in Conns :
      (\/ UserOf(c) = UserOf(p.socket) /\ Joined(c, p.receiverId)
       \/ UserOf(c) = p.receiverId /\ Joined(c, UserOf(p.socket)))
      => Count(inbox'[c], NewMessage(p.message)) = Count(inbox[c], NewMessage(p.message)) + 1
\* C7: join is idempotent: however many identical join requests a connection
\* has made, it is in the conversation room once, and a new_message emitted to
\* that room is delivered to it exactly once.
C7_JoinIdempotent == [](C7_State) /\ [][C7_Step]_vars

\* a connection joined twice naming the same counterpart and holds one copy
C7_Witness ==
  \E c \in Conns : \E other \in Strings :
    /\ CopiesIn(other, joinReqs[c]) >= 2
    /\ Len(SelectSeq(inbox[c], LAMBDA x : x.event = "new_message")) = 1

\* ---------------------------------------------------------------- C8
C8_Step ==
  \A p \in pending : (Resumes(p) /\ p.st = "ok") =>
    \A c \in Conns :
      Count(inbox'[c], NewMessage(p.message))
        = Count(inbox[c], NewMessage(p.message))
          + (IF BagIn(ConversationRoom(CanonicalKey({UserOf(p.socket), p.receiverId})), rooms[c])
             THEN 1 ELSE 0)
\* C8: when a send_message between s and r succeeds, each connection enrolled in
\* the conversation room of {s, r} at that moment receives exactly one
\* new_message for the row, the emitting connection and the sender's other
\* connections included, and a connection not enrolled receives none.
C8_EachMemberOnce == [][C8_Step]_vars

\* the sender has two connections, both enrolled, and each holds one copy
C8_Witness ==
  \E p \in pending : \E c \in Conns :
    /\ p.st = "ok" /\ p.done
    /\ c # p.socket /\ UserOf(c) = UserOf(p.socket)
    /\ Count(inbox[c], NewMessage(p.message)) = 1
    /\ Count(inbox[p.socket], NewMessage(p.message)) = 1

\* ---------------------------------------------------------------- C9
C9_State == \A c \in Conns : sockets[c].status = "disconnected" => rooms[c] = EmptyBag
C9_Step ==
  \A c \in Conns :
    /\ sockets[c].status = "disconnected" => inbox'[c] = inbox[c]
    /\ (Connected(c) /\ sockets'[c].status = "disconnected") =>
         /\ \A d \in Conns \ {c} : rooms'[d] = rooms[d]
         /\ emitted' = emitted
         /\ inbox' = inbox
\* C9: a disconnected connection is in no room and is delivered nothing that is
\* emitted afterwards; its disconnect leaves the rooms of the other connections
\* unchanged and emits nothing.
C9_DisconnectLeavesRooms == [](C9_State) /\ [][C9_Step]_vars

\* the first connection has disconnected and the second, which connected after
\* it, has emitted to its personal room; the first received nothing
C9_Witness ==
  /\ sockets[1].status = "disconnected"
  /\ \E i \in 1..Len(emitted) :
       emitted[i].socket = 2 /\ emitted[i].room = UserRoom(UserOf(1))
  /\ inbox[1] = <<>>

\* --------------------------------------------------------------- C10
Ids(seq) == {seq[i].id : i \in 1..Len(seq)}
\* the row of a forwarded event was inserted before, and is fetched while stored
Persisted(row) ==
  /\ \E p \in pending : p.st = "ok" /\ p.message = row
  /\ row.id \in 1..(nextId - 1)
  /\ \A m \in messages : m.id = row.id =>
       /\ m.id \in Ids(GetMessagesResponse(row.sender_id, row.receiver_id,
                                           DefaultPage, DefaultLimit))
       /\ m.id \in Ids(GetMessagesResponse(row.receiver_id, row.sender_id,
                                           DefaultPage, DefaultLimit))
\* C10: a new_message or message_notification is emitted only for a row the
\* store has already inserted; whenever a connection holds such an event the
\* row, unless deleted since, is returned by GET /messages/:otherUserId for
\* either party.
C10_PersistedBeforeBroadcast ==
  /\ \A i \in 1..Len(emitted) :
       emitted[i].ev.event \in {"new_message", "message_notification"} =>
         Persisted(emitted[i].ev.message)
  /\ \A c \in Conns : \A i \in 1..Len(inbox[c]) :
       inbox[c][i].event \in {"new_message", "message_notification"} =>
         Persisted(inbox[c][i].message)

\* a connection holds a new_message whose row is stored and has been read
C10_Witness ==
  \E c \in Conns : \E i \in 1..Len(inbox[c]) :
    /\ inbox[c][i].event = "new_message"
    /\ \E m \in messages : m.id = inbox[c][i].message.id /\ m.read_at # 0

\* --------------------------------------------------------------- C11
\* emit calls in the log made by socket c that carry event name
EmitsOf(c, name) == SelectSeq(emitted, LAMBDA e : e.socket = c /\ e.ev.event = name)
\* emit calls in the log that carry event name for the row with this id
EmitsFor(id, name) ==
  SelectSeq(emitted, LAMBDA e : e.ev.event = name /\ e.ev.message.id = id)

C11_Outcome ==
  /\ \A p \in pending : (p.st = "ok" /\ p.done) =>
       /\ Len(EmitsFor(p.message.id, "new_message")) = 1
       /\ Len(EmitsFor(p.message.id, "message_notification")) = 1
  /\ \A p \in pending : (p.st = "ok" /\ ~p.done) =>
       /\ Len(EmitsFor(p.message.id, "new_message")) = 0
       /\ Len(EmitsFor(p.message.id, "message_notification")) = 0
  /\ \A c \in Conns :
       Len(EmitsOf(c, "message_error"))
         = Cardinality({p \in pending : p.socket = c /\ Failed(p) /\ p.done})
C11_Step ==
  \A p \in pending : Resumes(p) =>
    /\ sockets' = sockets /\ rooms' = rooms
    /\ Len(emitted') = Len(emitted) + (IF p.st = "ok" THEN 2 ELSE 1)
C11_Ends ==
  \A rid \in 1..MaxSends :
    (\E p \in pending : p.rid = rid) ~> (\E p \in pending : p.rid = rid /\ p.done)
\* C11: given that every store call returns, every send_message handled for an
\* authenticated connection ends, and ends in exactly one of two ways: the
\* new_message and message_notification emits for its row and no error, or one
\* message_error to its own socket and no broadcast.  The step that ends it
\* changes no connection and no room, so the relay goes on handling events.
C11_SendEndsOneWay == [](C11_Outcome) /\ [][C11_Step]_vars /\ C11_Ends

\* a send failed, its socket got message_error, and the relay handled a typing
\* event from that socket afterwards
C11_Witness ==
  \E i \in 1..Len(emitted) : \E j \in 1..Len(emitted) :
    /\ i < j
    /\ emitted[i].ev = MessageError
    /\ emitted[j].ev.event = "user_typing"
    /\ emitted[j].socket = emitted[i].socket
    /\ inbox[emitted[i].socket] = <<MessageError>>

\* --------------------------------------------------------------- C12
\* ids of the rows whose new_message connection c holds
NewIds(c) ==
  {inbox[c][i].message.id : i \in {k \in 1..Len(inbox[c]) : inbox[c][k].event = "new_message"}}
\* where connection c holds the new_message of row id, and where the log does
NewAt(c, id) ==
  CHOOSE i \in 1..Len(inbox[c]) :
    inbox[c][i].event = "new_message" /\ inbox[c][i].message.id = id
EmitAt(id) ==
  CHOOSE i \in 1..Len(emitted) :
    emitted[i].ev.event = "new_message" /\ emitted[i].ev.message.id = id

Signals(c, target, ev) ==
  \/ \E o \in Blobs, t \in CallTypes :
       CallUser(c, target, o, t) /\ ev = IncomingCall(UserOf(c), o, t)
  \/ \E a \in Blobs : AnswerCall(c, target, a) /\ ev = CallAnswered(a)
  \/ RejectCall(c, target) /\ ev = CallRejected
  \/ EndCall(c, target) /\ ev = CallEnded
  \/ \E x \in Blobs : IceCandidateFrom(c, target, x) /\ ev = IceCandidate(x)
SignalEvents ==
  {IncomingCall(id, o, t) : id \in Strings, o \in Blobs, t \in CallTypes}
    \cup {CallAnswered(a) : a \in Blobs} \cup {CallRejected, CallEnded}
    \cup {IceCandidate(x) : x \in Blobs}

C13_Step ==
  \A c \in Conns, target \in Strings, ev \in SignalEvents :
    (emitted' # emitted /\ Connected(c) /\ Signals(c, target, ev)) =>
      /\ emitted' = Append(emitted, [socket |-> c, room |-> UserRoom(target),
                                     ev |-> ev, except |-> TRUE])
      /\ \A d \in Conns :
           inbox'[d] = IF d # c /\ BagIn(UserRoom(target), rooms[d])
                       THEN Append(inbox[d], ev) ELSE inbox[d]
C13_State ==
  \A i \in 1..Len(emitted) :
    emitted[i].ev.event \in CallEvents => emitted[i].room[1] = "user"
\* C13: call_user, answer_call, reject_call, end_call and ice_candidate are
\* forwarded as incoming_call, call_answered, call_rejected, call_ended and
\* ice_candidate to exactly the connections enrolled at that moment in the
\* personal room of the identity the payload names, the emitting connection
\* excepted; no signaling event is emitted to a conversation room.
C13_SignalingByPersonalRoom == [](C13_State) /\ [][C13_Step]_vars

\* a connection that has joined no conversation holds an incoming_call made by
\* the other connection, which had joined a conversation with it
C13_Witness ==
  \E c \in Conns, d \in Conns :
    /\ c # d /\ Connected(c) /\ Connected(d)
    /\ joinReqs[d] = EmptyBag
    /\ BagIn(UserOf(d), joinReqs[c])
    /\ \E i \in 1..Len(inbox[d]) :
         inbox[d][i].event = "incoming_call" /\ inbox[d][i].callerId = UserOf(c)

\* --------------------------------------------------------------- C14
Forwarded == {"user_typing", "new_message", "message_notification"} \cup CallEvents
\* connection d is, now, an addressee of emit call e
Addressee(e, d) ==
  /\ ~(e.except /\ e.socket = d)
  /\ IF e.room = SocketRoom(d) THEN Connected(d) ELSE BagIn(e.room, rooms[d])
\* the emit calls this step adds to the log
NewEmits == SubSeq(emitted', Len(emitted) + 1, Len(emitted'))
EventsOf(es) == [i \in 1..Len(es) |-> es[i].ev]

C14_Step ==
  /\ Len(emitted') >= Len(emitted)
  /\ SubSeq(emitted', 1, Len(emitted)) = emitted
  /\ \A d \in Conns :
       inbox'[d] = inbox[d] \o EventsOf(SelectSeq(NewEmits, LAMBDA e : Addressee(e, d)))
C14_State ==
  \A d \in Conns : \A i \in 1..Len(inbox[d]) :
    \E k \in 1..Len(emitted) : emitted[k].ev = inbox[d][i]
\* C14: nothing is queued.  The events of an emit call reach, in the step
\* that makes the call, the connections enrolled in the addressed room at
\* that moment and nobody else; no other step delivers anything, so an event
\* emitted to a room without members reaches nobody, and a connection that
\* connects or joins later is never delivered it.
C14_NeverQueued == [](C14_State) /\ [][C14_Step]_vars

\* the log holds a forwarded event emitted by another socket to a room that
\* connection d is enrolled in now, and d was not delivered it
C14_Witness ==
  \E d \in Conns : \E k \in 1..Len(emitted) :
    /\ emitted[k].ev.event \in Forwarded
    /\ emitted[k].socket # d
    /\ Connected(d) /\ BagIn(emitted[k].room, rooms[d])
    /\ inbox[d] = <<>>

\* --------------------------------------------------------------- C15
C15_State == \A m \in messages : m.sender_id # m.receiver_id
C15_Step ==
  /\ \A u \in users : PostMessage(u, u, TRUE) =>
       messages' = messages /\ response' = Status(500)
  /\ \A p \in pending : \A q \in pending' :
       (Answers(p, q) /\ p.receiverId = UserOf(p.socket)) =>
         messages' = messages /\ Failed(q)
C16_Step ==
  /\ \A m \in messages : (\A x \in messages' : x.id # m.id) =>
       /\ DeleteMessage(m.sender_id, m.id)
       /\ response' = Status(200)
       /\ messages' = messages \ {m}
  /\ \A u \in users \cup {Undefined}, id \in 1..MaxRows :
       (DeleteMessage(u, id) /\ \A m \in messages : m.id = id => m.sender_id # u) =>
         /\ messages' = messages
         /\ response'.status \in {401, 404}
Verifies(header) == TokenOf(header) # Undefined /\ TokenOf(header).kind = "valid"
SubjectExists(header) == Verifies(header) /\ TokenOf(header).userId \in users
\* this step is a request to an authenticated route with this header, the
\* store answering the lookup of the subject as st
Requests(header, st) ==
  /\ "authorization" \in DOMAIN response' /\ response'.authorization = header
  /\ \E id \in RowIds : DeleteComment(header, st, id)

C17_OriginalStep ==
  \A h \in Headers, st \in Answers3 : Requests(h, st) =>
    /\ response'.handler <=> SubjectExists(h)
    /\ response'.handler => response'.user.id = TokenOf(h).userId
    /\ ~SubjectExists(h) =>
         response'.status \in {401, 403} /\ response'.user = Undefined
\* C17 as stated: the request reaches its handler exactly when the credential
\* verifies and its subject has a row at that moment; otherwise 401 or 403.
C17_Original == [][C17_OriginalStep]_vars

C17_AmendedStep ==
  \A h \in Headers, st \in Answers3 : Requests(h, st) =>
    /\ response'.handler <=> (SubjectExists(h) /\ st = "ok")
    /\ response'.handler => response'.user.id = TokenOf(h).userId
    /\ ~response'.handler =>
         /\ response'.user = Undefined
         /\ comments' = comments
         /\ response'.status =
              IF TokenOf(h) = Undefined THEN 401
              ELSE IF ~Verifies(h) THEN 403
              ELSE IF st = "threw" THEN 500
              ELSE 403
\* C17 amended: authenticateToken passes the request on, with the identity of
\* the subject attached, exactly when the credential verifies, the lookup of
\* its subject is answered by the store, and the subject has a row at that
\* moment.  Otherwise the handler does not run and no identity is attached:
\* 401 without a token, 403 for a token that does not verify or has expired,
\* for a subject without a row and for a lookup answered with an error, and 500
\* when the lookup call throws.
C17_AuthenticateToken == [][C17_AmendedStep]_vars

\* the last request carried a credential that verifies for u1, whose row has
\* been deleted since, and was answered 403 without reaching the handler
C17_Witness ==
  /\ response # NoResponse
  /\ response.authorization = <<"Bearer", Bearer("valid", u1)>>
  /\ u1 \notin users
  /\ response.status = 403 /\ ~response.handler
  /\ CommentRow(1, u1, 1) \notin comments

\* --------------------------------------------------------------- C18
\* this step is a request to an admin route with this header, every lookup of
\* the middleware answered by the store
AdminRequest(header) ==
  /\ "authorization" \in DOMAIN response' /\ response'.authorization = header
  /\ \E id \in RowIds \cup {0}, a \in Actions, upd \in Updates :
       \/ ModeratePost(header, "ok", "ok", id, a, upd)
       \/ ReviewVerification(header, "ok", "ok", id, a, upd)
\* the stored is_admin flag of the subject of header is admin
FlagIs(header, admin) ==
  /\ Verifies(header)
  /\ \E a \in accounts : a.id = TokenOf(header).userId /\ a.is_admin = admin

C18_ClaimStep ==
  \A h \in Headers : AdminRequest(h) =>
    /\ FlagIs(h, TRUE) => response'.handler
    /\ FlagIs(h, FALSE) =>
         /\ response'.status = 403 /\ ~response'.handler
         /\ <<accounts, posts, comments, verifications>>'
              = <<accounts, posts, comments, verifications>>
\* C18 as stated: on every admin route a request authenticated as a user whose
\* stored is_admin flag is true reaches the handler, and one authenticated as a
\* user whose flag is false is refused 403 and changes nothing in the store.
C18_AdminGatedByFlag == [][C18_ClaimStep]_vars

C18_CodeStep ==
  \A h \in Headers : AdminRequest(h) =>
    /\ ~response'.handler
    /\ <<accounts, posts, comments, verifications>>'
         = <<accounts, posts, comments, verifications>>
    /\ SubjectExists(h) => response'.status = 403 /\ response'.code = "ADMIN_REQUIRED"
\* C18, what the code does: req.user never carries is_admin, so every request
\* to an admin route is refused, 403 ADMIN_REQUIRED once authenticated, whatever
\* the stored flag, and nothing in the store changes.
C18_AdminAlwaysRefused == [][C18_CodeStep]_vars

\* the admin u1 has just been refused on an admin route
C18_Witness ==
  /\ response # NoResponse
  /\ response.authorization = <<"Bearer", Bearer("valid", u1)>>
  /\ UserRow(u1, TRUE) \in accounts
  /\ response.code = "ADMIN_REQUIRED"

\* --------------------------------------------------------------- C19
CommentRoute == "DELETE /comments/:commentId"
PostRoute == "DELETE /posts/:postId"
\* this step is a delete of comment or post id with this header, the store
\* answering the lookup of authenticateToken
DeleteRequest(route, header, id) ==
  /\ "authorization" \in DOMAIN response' /\ response'.authorization = header
  /\ response'.route = <<route, id>>
  /\ IF route = CommentRoute
     THEN DeleteComment(header, "ok", id)
     ELSE \E upd \in Updates : DeletePost(header, "ok", upd, id)
Stored(route) == IF route = CommentRoute THEN comments ELSE posts
\* the resource exists and its author is not the subject of header
NotAuthor(route, header, id) ==
  /\ SubjectExists(header)
  /\ \E x \in Stored(route) : x.id = id /\ x.user_id # TokenOf(header).userId

C19_ClaimStep ==
  \A route \in {CommentRoute, PostRoute}, h \in Headers, id \in RowIds :
    DeleteRequest(route, h, id) =>
      /\ NotAuthor(route, h, id) =>
           /\ response'.status = 403
           /\ \E x \in Stored(route)' : x.id = id
      /\ (SubjectExists(h) /\ \A x \in Stored(route) : x.id # id) =>
           response'.status = 404
\* C19 as stated: a delete of an existing comment or post by an authenticated
\* user who is not its author is answered 403, not the 404 that a missing
\* resource is answered with, and leaves the resource stored.
C19_OwnershipIs403 == [][C19_ClaimStep]_vars

C19_CodeStep ==
  \A route \in {CommentRoute, PostRoute}, h \in Headers, id \in RowIds :
    DeleteRequest(route, h, id) =>
      /\ NotAuthor(route, h, id) =>
           /\ response'.status = IF route = PostRoute THEN 403 ELSE 404
           /\ Stored(route)' = Stored(route)
      /\ (SubjectExists(h) /\ \A x \in Stored(route) : x.id # id) =>
           response'.status = 404
\* C19, what the code does: deletePost answers 403 to a user who is not the
\* author and 404 for a missing post; DELETE /comments/:commentId answers 404
\* in both cases.  Neither removes anything for a user who is not the author.
C19_CommentOwnershipIs404 == [][C19_CodeStep]_vars

\* u2 has just asked to delete comment 1 of u1, which is stored, and got 404
C19_Witness ==
  /\ response # NoResponse
  /\ response.route = <<CommentRoute, 1>>
  /\ response.handler /\ response.user.id = u2
  /\ CommentRow(1, u1, 1) \in comments
  /\ response.status = 404

\* --------------------------------------------------------------- C20
Present(field) == field # Undefined
\* the messages of the constraints that body violates: a missing field
\* violates being required, a field that is present violates what its
\* validator finds
Violations(body) ==
  Range(RequiredErrors(body))
    \cup (IF Present(body.username) THEN Range(ValidateUsername(body.username)) ELSE {})
    \cup (IF Present(body.email) THEN Range(ValidateEmail(body.email)) ELSE {})
    \cup (IF Present(body.password) THEN Range(ValidatePassword(body.password)) ELSE {})
    \cup (IF Present(body.display_name) /\ Len(body.display_name) > MaxDisplayName
          THEN {"Display name must be between 1 and 100 characters"} ELSE {})
Validated == response # NoResponse

\* C20 as stated: a registration body that violates a constraint is answered
\* 400 with an errors list holding an entry for every constraint it violates,
\* and the handler is not invoked.
C20_AllViolationsListed ==
  Validated =>
    (Violations(response.body) # {} =>
       /\ response.status = 400 /\ ~response.next
       /\ Violations(response.body) \subseteq Range(response.errors))

\* C20, what the code does: a body that violates a constraint is answered 400
\* and the handler is not invoked, but the errors list holds every violated
\* constraint only when no required field is missing; when one is missing, it
\* holds the "is required" entries alone, whatever else the body violates.
C20_RequiredErrorsFirst ==
  Validated =>
    LET body == response.body IN
    /\ response.next <=> Violations(body) = {}
    /\ response.status = 400 <=> Violations(body) # {}
    /\ Range(response.errors) =
         IF RequiredErrors(body) # <<>> THEN Range(RequiredErrors(body)) ELSE Violations(body)

\* a body without username and with the password 'abc' was answered with the
\* single error that the username is required
C20_Witness ==
  /\ Validated
  /\ response.body.username = Undefined
  /\ response.body.password = <<97, 98, 99>>
  /\ response.errors = <<"Username is required">>

\* --------------------------------------------------------------- C21
Hits == DOMAIN served
PassedOn(i) == "next" \in DOMAIN served[i].response /\ served[i].response.next
Answered429(i) == served[i].response.status = 429
\* the requests of key passed on at a time in [from, from + windowMs)
PassedIn(key, from) ==
  {i \in Hits : /\ served[i].key = key /\ PassedOn(i)
                /\ from <= served[i].time /\ served[i].time < from + limiter.windowMs}

\* C21: of the requests of one key that arrive in an interval of windowMs
\* milliseconds [t, t + windowMs), at most maxRequests are passed on; every
\* request is either passed on or answered 429, never both.  An interval
\* holds the most requests passed on when it starts at one of them, so the
\* intervals that start at the time of a request are the ones to look at.
C21_AtMostMaxPerWindow ==
  /\ \A key \in Ips : \A i \in Hits :
       Cardinality(PassedIn(key, served[i].time)) <= limiter.maxRequests
  /\ \A i \in Hits : PassedOn(i) <=> ~Answered429(i)

\* a limiter refused a request of a key whose window was full and, after the
\* window had moved on, passed a request of that key again
C21_Witness ==
  \E i, j, k \in Hits :
    /\ i < j /\ j < k
    /\ served[i].key = served[j].key /\ served[j].key = served[k].key
    /\ PassedOn(i) /\ Answered429(j) /\ PassedOn(k)
    /\ Cardinality(PassedIn(served[i].key, served[i].time)) = limiter.maxRequests

\* --------------------------------------------------------------- C27
\* request j is of the key of request i and arrives retryAfter seconds or more
\* after it, and every request of that key between them was refused
RetriesAfter(i, j) ==
  /\ i < j
  /\ served[j].key = served[i].key
  /\ served[j].time >= served[i].time + 1000 * served[i].response.retryAfter
  /\ \A k \in Hits : (i < k /\ k < j /\ served[k].key = served[i].key) => Answered429(k)
\* the times of the requests of key that were passed on and are in the window
\* of the last request handled
PassedTimes(key) ==
  LET hits == SelectSeq(served, LAMBDA h : /\ h.key = key
                                           /\ h.response.status # 429
                                           /\ h.time > now - limiter.windowMs)
  IN [i \in 1..Len(hits) |-> hits[i].time]

\* C27: a request answered 429 is followed by an admission of the next request
\* of that key that arrives retryAfter seconds or more later, whatever refused
\* attempts the key makes in between; the limiter records the requests it
\* passed on and no other.
C27_AdmittedAfterRetry ==
  /\ \A i, j \in Hits : (Answered429(i) /\ RetriesAfter(i, j)) => PassedOn(j)
  /\ \A key \in Ips : Get(requests, key) = PassedTimes(key)

\* a key was refused, tried again too early and was refused again, and was
\* admitted by its request retryAfter seconds after the first refusal
C27_Witness ==
  \E i, k, j \in Hits :
    /\ i < k /\ k < j
    /\ served[k].key = served[i].key
    /\ Answered429(i) /\ Answered429(k)
    /\ RetriesAfter(i, j)
    /\ served[j].time < served[k].time + 1000 * served[k].response.retryAfter
    /\ PassedOn(j)

\* --------------------------------------------------------------- C22
LikesOf(row) == {l \in likes : l.user_id = row.user_id /\ l.post_id = row.post_id}
\* handler rid is a like handler that found the post, met no failure of the
\* store and has answered
LikeAnswered(rid) ==
  /\ handlers[rid].route = LikeRoute
  /\ handlers[rid].pc = "done"
  /\ ~handlers[rid].fault
  /\ handlers[rid].response.status # 404
\* the row of handler rid
Created(rid) == \E l \in likes : l.id = rid
OneLikeRow == \A l \in likes : LikesOf(l) = {l}
\* handler rid answers in this step
LikeAnswers(rid) ==
  /\ rid \in DOMAIN handlers /\ handlers[rid].route = LikeRoute
  /\ handlers[rid].pc # "done" /\ handlers'[rid].pc = "done"

\* C22 as stated: a user has at most one like row for a post, and a like
\* request that does not create the row is answered 400 ALREADY_LIKED.
C22_DuplicateIsConflict ==
  /\ OneLikeRow
  /\ \A rid \in DOMAIN handlers :
       (LikeAnswered(rid) /\ ~Created(rid)) =>
         handlers[rid].response = Json(400, "ALREADY_LIKED")

C22_State ==
  /\ OneLikeRow
  /\ \A rid \in DOMAIN handlers :
       LikeAnswered(rid) =>
         \/ Created(rid) /\ handlers[rid].response.status = 200
         \/ /\ ~Created(rid)
            /\ LikesOf(handlers[rid].req) # {}
            /\ handlers[rid].response \in {Json(400, "ALREADY_LIKED"), Json(500, "LIKE_FAILED")}
C22_Step ==
  \A rid \in DOMAIN handlers :
    LikeAnswers(rid) =>
      IF handlers'[rid].response.status = 200
      THEN likes' = likes \cup LikesOf(handlers[rid].req)' /\ likes' # likes
      ELSE likes' = likes
\* C22, what the code does: a user has at most one like row for a post; a like
\* request that does not create the row leaves the likes unchanged and is
\* answered 400 ALREADY_LIKED when it read the row, and 500 LIKE_FAILED when
\* the row was inserted between its read and its own insert.
C22_DuplicateIs400Or500 == [](C22_State) /\ [][C22_Step]_vars

\* two like requests of one user for one post both read no row; the first
\* insert was answered 200 and the second 500 LIKE_FAILED
C22_Witness ==
  \E r1, r2 \in DOMAIN handlers :
    /\ r1 # r2
    /\ LikeAnswered(r1) /\ LikeAnswered(r2)
    /\ handlers[r1].req = handlers[r2].req
    /\ Created(r1)
    /\ handlers[r2].response = Json(500, "LIKE_FAILED")

\* --------------------------------------------------------------- C23
\* no handler met a failure of the store
NoFault == \A rid \in DOMAIN handlers : ~handlers[rid].fault
\* handler rid, of route, gets the answer to its call pc in this step, and the
\* answer is not a failure of the store
Answer(rid, route, pc) ==
  /\ Running(rid, route, pc)
  /\ handlers'[rid].pc # pc
  /\ handlers'[rid].answer = "ok"
Refused400(rid) == handlers'[rid].pc = "done" /\ handlers'[rid].response.status = 400

\* C23 as stated: no user has more than one verification request that is
\* pending or approved, and a submit handler inserts only for a user who has
\* none, as long as the store answers every call.
C23_AtMostOneActiveStep ==
  \A rid \in DOMAIN handlers :
    (Answer(rid, SubmitRoute, "insert") /\ ~handlers[rid].fault) =>
      ActiveRequests(handlers[rid].req.user_id) = {}
C23_AtMostOneActive ==
  /\ [](NoFault => \A userId \in users : Cardinality(ActiveRequests(userId)) <= 1)
  /\ [][C23_AtMostOneActiveStep]_vars

C23_State ==
  \A x \in verifications :
    \/ x.id = 1
    \/ \E rid \in DOMAIN handlers :
         /\ x.id = Uuid(rid) /\ x.user_id = handlers[rid].req.user_id
         /\ handlers[rid].route = SubmitRoute /\ handlers[rid].pc \in {"update", "done"}
C23_Step ==
  \A rid \in DOMAIN handlers :
    LET userId == handlers[rid].req.user_id IN
    /\ Answer(rid, SubmitRoute, "select") =>
         /\ verifications' = verifications
         /\ IF Cardinality(ActiveRequests(userId)) = 1
            THEN Refused400(rid)
            ELSE handlers'[rid].pc = "insert"
    /\ Answer(rid, SubmitRoute, "insert") =>
         verifications' = verifications \cup {VerificationRow(Uuid(rid), userId, "pending")}
\* C23, what the code does: a submit handler is refused with 400, creating no
\* row, when its own read finds exactly one pending or approved request of the
\* user; otherwise it goes on to insert a pending request, whatever requests
\* the user has by the time of the insert.
C23_SubmitReadsThenInserts == [](C23_State) /\ [][C23_Step]_vars

\* two submit handlers of one user both read no request and both inserted: the
\* user has two pending requests
C23_Witness ==
  /\ NoFault
  /\ \E r1, r2 \in DOMAIN handlers :
       /\ r1 # r2
       /\ handlers[r1].route = SubmitRoute /\ handlers[r2].route = SubmitRoute
       /\ handlers[r1].req.user_id = handlers[r2].req.user_id
       /\ {VerificationRow(Uuid(r1), handlers[r1].req.user_id, "pending"),
           VerificationRow(Uuid(r2), handlers[r1].req.user_id, "pending")} \subseteq verifications

\* --------------------------------------------------------------- C24
IsReviewed(x) == x.status \in {"approved", "rejected"}
RequestOf(rid) == {x \in verifications : x.id = handlers[rid].req.verification_id}
Wrote(rid) == handlers[rid].route = ReviewRoute /\ handlers[rid].pc \in {"updateUser", "done"}
                /\ handlers[rid].response.status \notin {400, 404}
                /\ handlers[rid].answer = "ok"

\* C24 as stated: a request that is approved or rejected never changes again,
\* and a review handler that reads it so is refused with 400 and changes
\* neither the requests nor the users.
C24_ReviewedOnceStep ==
  /\ \A x \in verifications : IsReviewed(x) => x \in verifications'
  /\ \A rid \in DOMAIN handlers :
       (Answer(rid, ReviewRoute, "select") /\ \E x \in RequestOf(rid) : IsReviewed(x)) =>
         /\ Refused400(rid)
         /\ UNCHANGED <<verifications, accounts>>
C24_State ==
  \A x \in verifications :
    IsReviewed(x) =>
      \E rid \in DOMAIN handlers :
        /\ handlers[rid].route = ReviewRoute
        /\ handlers[rid].req.verification_id = x.id
        /\ NewStatus(handlers[rid].req.action) = x.status
        /\ handlers[rid].pc \in {"updateUser", "done"}
        /\ "status" \in DOMAIN handlers[rid].data
        /\ handlers[rid].data.status = "pending"
C24_Step ==
  \A rid \in DOMAIN handlers :
    /\ Answer(rid, ReviewRoute, "select") =>
         /\ UNCHANGED <<verifications, accounts>>
         /\ \A x \in RequestOf(rid) :
              IF IsReviewed(x)
              THEN Refused400(rid)
              ELSE handlers'[rid].pc = "update" /\ handlers'[rid].data = x
    /\ Answer(rid, ReviewRoute, "update") =>
         /\ \A x \in RequestOf(rid)' : x.status = NewStatus(handlers[rid].req.action)
         /\ {x.id : x \in verifications'} = {x.id : x \in verifications}
         /\ \A x \in verifications :
              x.id # handlers[rid].req.verification_id => x \in verifications'
ReportsComplete ==
  \A rid \in DOMAIN handlers : handlers[rid].route = ReportRoute => handlers[rid].pc = "done"
CountOf(post_id) == {x.reports_count : x \in {y \in posts : y.id = post_id}}

\* C25 as stated: once every report handler has answered, and the store has
\* answered every call, the reports_count of a post is the number of reports
\* stored for it.
C25_CountMatchesRows ==
  (ReportsComplete /\ NoFault) =>
    \A x \in posts : x.reports_count = Cardinality(ReportsOf(x.id))

C25_State ==
  (ReportsComplete /\ NoFault) =>
    \A x \in posts :
      /\ x.reports_count <= Cardinality(ReportsOf(x.id))
      /\ ReportsOf(x.id) # {} =>
           \E rid \in DOMAIN handlers :
             /\ handlers[rid].req.post_id = x.id
             /\ handlers[rid].response.status = 201
             /\ handlers[rid].data.length = x.reports_count
C25_Step ==
  \A rid \in DOMAIN handlers :
    LET post_id == handlers[rid].req.post_id IN
    /\ Answer(rid, ReportRoute, "insert") =>
         \/ /\ handlers'[rid].pc = "count"
            /\ Cardinality(ReportsOf(post_id)') = Cardinality(ReportsOf(post_id)) + 1
            /\ CountOf(post_id)' = {n + 1 : n \in CountOf(post_id)}
         \/ /\ handlers'[rid].pc = "done"
            /\ UNCHANGED <<reports, posts>>
    /\ Answer(rid, ReportRoute, "count") =>
         /\ Length(handlers'[rid].data) = Cardinality(ReportsOf(post_id))
         /\ UNCHANGED <<reports, posts>>
    /\ Answer(rid, ReportRoute, "update") =>
         /\ CountOf(post_id)' = {Length(handlers[rid].data)}
         /\ UNCHANGED reports
\* C25, what the code does: the insert of a report adds one to the post's
\* reports_count; the handler then reads the number of reports of the post
\* and, in a later call, writes the number it read into reports_count,
\* whatever reports were inserted in between.  Once every handler has
\* answered, reports_count is the number the handler that wrote last had
\* read, which is at most the number of reports stored.
C25_CountIsLastWritten == [](C25_State) /\ [][C25_Step]_vars

\* two users reported post 1; the handler that counted one report wrote last:
\* reports_count is 1 and two reports are stored
C25_Witness ==
  /\ ReportsComplete /\ NoFault
  /\ Cardinality(ReportsOf(1)) = 2
  /\ CountOf(1) = {1}

\* --------------------------------------------------------------- C26
\* handler rid is a registration handler that met no failure of the store and
\* has answered
Registered201(rid) == \E a \in accounts : a.id = NewUserId(rid)
RegisterAnswered(rid) ==
  /\ handlers[rid].route = RegisterRoute
  /\ handlers[rid].pc = "done"
  /\ ~handlers[rid].fault
\* the users whose stored username or email is that of body, lower-cased
Taken(body) ==
  {a \in accounts : \/ a.username = ToLowerCase(body.username)
                    \/ a.email = ToLowerCase(body.email)}
UniqueUsers ==
  \A a, b \in accounts : (a.username = b.username \/ a.email = b.email) => a = b

\* C26 as stated: a registration whose lower-cased username or email is that
\* of an existing user creates no row and is answered 400 USERNAME_EXISTS or
\* 400 EMAIL_EXISTS.
C26_DuplicateIsConflict ==
  /\ UniqueUsers
  /\ \A rid \in DOMAIN handlers :
       (RegisterAnswered(rid) /\ ~Registered201(rid)) =>
         handlers[rid].response \in {Json(400, "USERNAME_EXISTS"), Json(400, "EMAIL_EXISTS")}

C26_State ==
  /\ UniqueUsers
  /\ \A rid \in DOMAIN handlers :
       RegisterAnswered(rid) =>
         \/ Registered201(rid) /\ handlers[rid].response.status = 201
         \/ /\ ~Registered201(rid)
            /\ Taken(handlers[rid].req) # {}
            /\ handlers[rid].response \in {Json(400, "USERNAME_EXISTS"),
                                           Json(400, "EMAIL_EXISTS"),
                                           Json(500, "USER_CREATION_FAILED")}
C26_Step ==
  \A rid \in DOMAIN handlers :
    /\ Answer(rid, RegisterRoute, "getUserByEmail") =>
         /\ Refused400(rid) <=> \E a \in accounts : a.email = handlers[rid].req.email
         /\ UNCHANGED accounts
    /\ Answer(rid, RegisterRoute, "getUserByUsername") =>
         /\ Refused400(rid) <=> \E a \in accounts : a.username = handlers[rid].req.username
         /\ UNCHANGED accounts
    /\ Answer(rid, RegisterRoute, "createUser") =>
         IF Taken(handlers[rid].req) = {}
         THEN handlers'[rid].response.status = 201 /\ Registered201(rid)'
         ELSE handlers'[rid].response = Json(500, "USER_CREATION_FAILED") /\ UNCHANGED accounts
\* C26, what the code does: such a registration creates no row; it is answered
\* 400 EMAIL_EXISTS or USERNAME_EXISTS when the email or username as sent, not
\* lower-cased, is stored at the time of the handler's read, and 500
\* USER_CREATION_FAILED when the insert of the lower-cased row is refused by
\* the table.
C26_DuplicateIs400Or500 == [](C26_State) /\ [][C26_Step]_vars

\* a registration as Bob with a new email was answered 500
\* USER_CREATION_FAILED: bob is stored
C26_Witness ==
  \E rid \in DOMAIN handlers :
    /\ RegisterAnswered(rid)
    /\ handlers[rid].req.username = Bob /\ handlers[rid].req.email = amyMail
    /\ handlers[rid].response = Json(500, "USER_CREATION_FAILED")
    /\ accounts = {Account(u1, bob, bobMail)}

\* --------------------------------------------------------------- C30
\* the messages whose read_at this step writes, as they were
Stamped == {m \in messages : \E n \in messages' : n.id = m.id /\ n.read_at # m.read_at}
StampOf(m) == {n.read_at : n \in {x \in messages' : x.id = m.id}}
\* this step is a request of userId writing read_at of message m
StampsFor(userId, m) ==
  \/ \E r \in reads : r.userId = userId /\ m.id \in r.ids /\ GetMessagesUpdate(r)
  \/ \E o \in users : Marked(m, userId, o) /\ MarkMessagesAsRead(userId, o)

\* C30 as stated: read_at of a message is written only by a request of the
\* message's receiver, and a read_at that is set is never written again.
C30_ReadAtWrittenOnceStep ==
  \A m \in Stamped : StampsFor(m.receiver_id, m) /\ m.read_at = 0
C30_ReadAtWrittenOnce == [][C30_ReadAtWrittenOnceStep]_vars

C30_Step ==
  /\ \A m \in Stamped :
       /\ StampsFor(m.receiver_id, m)
       /\ \A t \in StampOf(m) : t > m.read_at
       /\ m.read_at # 0 => \E r \in reads : m.id \in r.ids /\ GetMessagesUpdate(r)
  /\ {n.id : n \in messages'} = {m.id : m \in messages}
\* C30, what the code does: read_at of a message is written only by a request
\* of the message's receiver and is never cleared; mark-read writes it only
\* where it is not set; the update of getMessages writes it for the ids the
\* handler read as unread, also where it has been set since, with a later
\* time.
C30_ReadAtWrittenByReceiver == [][C30_Step]_vars

\* a getMessages handler of u2 read message 1 unread; before its update
\* reached the store, a mark-read request of u2 stamped message 1
C30_Witness ==
  /\ \E r \in reads : r.userId = u2 /\ 1 \in r.ids
  /\ \E m \in messages : m.id = 1 /\ m.read_at = 1
  /\ response = Status(200)

\* --------------------------------------------------------------- C28
\* key is id, a colon and something, or something, a colon and id
KeyContains(key, id) ==
  LET n == Len(id) IN
  /\ Len(key) > n
  /\ \/ SubSeq(key, 1, n + 1) = id \o <<Colon>>
     \/ SubSeq(key, Len(key) - n, Len(key)) = <<Colon>> \o id
ConversationRoomsOf(c) == {room \in BagToSet(rooms[c]) : room[1] = "conversation"}
NewMessagesOf(c) ==
  {inbox[c][i].message : i \in {j \in DOMAIN inbox[c] : inbox[c][j].event = "new_message"}}

\* C28: the key of every conversation room a connection is in contains the
\* connection's own identity, whatever otherUserId its joins carried; the
\* new_message events a connection received are of messages it sent or was
\* sent.
C28_OnlyOwnConversations ==
  \A c \in Conns :
    /\ \A room \in ConversationRoomsOf(c) : KeyContains(room[2], sockets[c].userId)
    /\ \A m \in NewMessagesOf(c) : sockets[c].userId \in {m.sender_id, m.receiver_id}

\* a connection of u3 joined with the key of the conversation of u1 and u2 as
\* otherUserId; u1 then sent u2 a message, which reached u1's connection and
\* not u3's
C28_Witness ==
  \E c, d \in Conns :
    /\ sockets[c].userId = u3 /\ sockets[d].userId = u1
    /\ BagIn(JoinColon(<<u1, u2>>), joinReqs[c])
    /\ \E m \in NewMessagesOf(d) : m.sender_id = u1 /\ m.receiver_id = u2
    /\ NewMessagesOf(c) = {}

\* ------------------------------------------------------------------ C29
\* the identity the handshake bound to connection c: the subject of the
\* verified token it presented
BoundAtHandshake(c) ==
  IF sockets[c].token.present /\ sockets[c].token.verifies
  THEN sockets[c].token.userId
  ELSE Undefined
\* the originating identity an emitted event carries
Originator(ev) == IF ev.event = "incoming_call" THEN ev.callerId ELSE ev.userId
Originated == {"message_notification", "user_typing", "incoming_call"}

\* C29: sender_id of every row send_message persisted, senderId of every
\* message_notification, userId of every user_typing and callerId of every
\* incoming_call is the identity the handshake bound to the connection whose
\* handler produced it, and that identity is a user.
C29_OriginatorIsBound ==
  /\ \A m \in messages :
       \E p \in pending :
         /\ p.message = m
         /\ m.sender_id = BoundAtHandshake(p.socket)
         /\ m.sender_id \in users
  /\ \A i \in DOMAIN emitted :
       emitted[i].ev.event \in Originated =>
         /\ Originator(emitted[i].ev) = BoundAtHandshake(emitted[i].socket)
         /\ Originator(emitted[i].ev) \in users

\* the connection of u1 sent u2 a message: the row was persisted and the
\* notification emitted; the connection of u2 called u1
C29_Witness ==
  \E c, d \in Conns :
    /\ BoundAtHandshake(c) = u1 /\ BoundAtHandshake(d) = u2
    /\ \E m \in messages : m.sender_id = u1 /\ m.receiver_id = u2
    /\ \E i \in DOMAIN emitted :
         /\ emitted[i].socket = c
         /\ emitted[i].ev.event = "message_notification"
         /\ emitted[i].ev.message.receiver_id = u2
    /\ \E i \in DOMAIN emitted :
         /\ emitted[i].socket = d
         /\ emitted[i].ev.event = "incoming_call"
         /\ emitted[i].room = UserRoom(u1)

====
